---- MODULE Spec2Model ----
(***************************************************************************)
(* The trash subsystem of CliFM (src/src/trash.c): trashing, restoring and *)
(* purging files through the external cp and rm commands.                  *)
(*                                                                         *)
(* A C string is a sequence of one-character strings.  The file system is  *)
(* one map from absolute path names to nodes; the trash store is the part  *)
(* of it below trash_files_dir and trash_info_dir.                         *)
(***************************************************************************)
EXTENDS Integers, Sequences, FiniteSets, TLC

VARIABLES
    fs,        \* the file system: absolute path |-> [t: type, d: content]
    perm,      \* access environment: [now, nox, nor, immut, ioerr: sets of paths]
    cwd,       \* working directory of the process
    clock,     \* time(NULL), in seconds
    recur_perm_error_flag, \* the global flag of recur_perm_check
    pc,        \* position of the program
    batch,     \* frame of trash_files_args: [args, i, suffix, exit_status]
    el,        \* frame of trash_element: [file, full_path, file_suffix]
    out,       \* messages printed by the command being run
    ret,       \* status returned by the last element operation
    ev,        \* the step just taken
    fs0,       \* the file system when the last element operation was entered
    hist,      \* bookkeeping of the run: [cmds, faults, manual, typed]
    made,      \* the last trash_element that returned success, and what it found
    exit_code  \* status returned by the last command

vars == <<fs, perm, cwd, clock, recur_perm_error_flag, pc, batch, el, out,
          ret, ev, fs0, hist, made, exit_code>>

--------------------------------------------------------------------------
(* Bounds of the model *)

MaxCmds == 1
MaxClock == 1
MaxFaults == 2

--------------------------------------------------------------------------
(* C strings *)

EXIT_SUCCESS == 0
EXIT_FAILURE == 1

\* A NULL pointer.  None of the string functions below returns an empty
\* string, so the empty sequence stands for NULL.
NULL == <<>>

IsPrefix(p, s) == Len(p) <= Len(s) /\ SubSeq(s, 1, Len(p)) = p

\* strncmp(a, b, n) == 0
strncmp0(a, b, n) ==
    \A i \in 1..n :
        /\ (i <= Len(a) + 1 /\ i <= Len(b) + 1)
        /\ (IF i <= Len(a) THEN a[i] ELSE "") = (IF i <= Len(b) THEN b[i] ELSE "")

LastIndexOf(s, c) ==
    LET I == {i \in 1..Len(s) : s[i] = c}
    IN  IF I = {} THEN 0 ELSE CHOOSE i \in I : \A j \in I : j <= i

\* The part of s before the last c; NULL when there is none
strbfrlst(s, c) ==
    LET k == LastIndexOf(s, c)
    IN  IF k <= 1 THEN NULL ELSE SubSeq(s, 1, k - 1)

\* The whole of s without its c, where the part after the last c is wanted
straftlst_whole(s, c) == SelectSeq(s, LAMBDA x : x # c)

\* The part of s after the last c; NULL when there is none
straftlst(s, c) ==
    LET k == LastIndexOf(s, c)
    IN  IF k = 0 \/ k = Len(s) THEN NULL ELSE SubSeq(s, k + 1, Len(s))

\* Index of the first c in s, -1 when there is none
strcntchr(s, c) ==
    LET I == {i \in 1..Len(s) : s[i] = c}
    IN  IF I = {} THEN -1 ELSE (CHOOSE i \in I : \A j \in I : i <= j) - 1

--------------------------------------------------------------------------
(* Path names *)

Root == <<"/">>
Slash == <<"/">>

RECURSIVE SplitFrom(_, _, _, _)
SplitFrom(s, i, cur, acc) ==
    IF i > Len(s) THEN (IF cur = <<>> THEN acc ELSE Append(acc, cur))
    ELSE IF s[i] = "/"
         THEN SplitFrom(s, i + 1, <<>>, IF cur = <<>> THEN acc ELSE Append(acc, cur))
         ELSE SplitFrom(s, i + 1, Append(cur, s[i]), acc)

\* The components of a path name
Split(s) == SplitFrom(s, 1, <<>>, <<>>)

RECURSIVE Walk(_, _, _)
Walk(comps, i, acc) ==
    IF i > Len(comps) THEN acc
    ELSE IF comps[i] = <<".">> THEN Walk(comps, i + 1, acc)
    ELSE IF comps[i] = <<".", ".">>
         THEN Walk(comps, i + 1,
                   IF acc = <<>> THEN acc ELSE SubSeq(acc, 1, Len(acc) - 1))
         ELSE Walk(comps, i + 1, Append(acc, comps[i]))

RECURSIVE Join(_, _)
Join(comps, i) ==
    IF i > Len(comps) THEN <<>> ELSE Slash \o comps[i] \o Join(comps, i + 1)

\* The absolute path name the kernel resolves s to, from directory dir
Resolve(dir, s) ==
    LET abs  == IF s # <<>> /\ s[1] = "/" THEN s ELSE dir \o Slash \o s
        cs   == Walk(Split(abs), 1, <<>>)
    IN  IF cs = <<>> THEN Root ELSE Join(cs, 1)

\* p itself and every path name below it
Below(p, q) == q = p \/ (IF p = Root THEN TRUE ELSE IsPrefix(p \o Slash, q))

Ancestors(q) == {SubSeq(q, 1, k - 1) : k \in {i \in 2..Len(q) : q[i] = "/"}}
                    \cup (IF q = Root THEN {} ELSE {Root})

Parent(q) == LET k == LastIndexOf(q, "/") IN IF k <= 1 THEN Root ELSE SubSeq(q, 1, k - 1)

--------------------------------------------------------------------------
(* The file system and the external commands *)

At(p, r) == IF r = <<>> THEN p ELSE IF p = Root THEN r ELSE p \o r

Rel(p, q) == IF q = p THEN <<>> ELSE IF p = Root THEN q ELSE SubSeq(q, Len(p) + 1, Len(q))

Under(F, p) == {q \in DOMAIN F : Below(p, q)}

\* The tree rooted at p, its nodes named relative to p
Tree(F, p) == [r \in {Rel(p, q) : q \in Under(F, p)} |-> F[At(p, r)]]

Graft(F, p, T) ==
    LET new == {At(p, r) : r \in DOMAIN T}
    IN  [q \in DOMAIN F \cup new |-> IF q \in new THEN T[Rel(p, q)] ELSE F[q]]

Prune(F, S) == [q \in DOMAIN F \ S |-> F[q]]

\* The sets of nodes of a tree that hold the directories leading to each member
RelAncestors(r) == {SubSeq(r, 1, k - 1) : k \in {i \in 1..Len(r) : r[i] = "/"}}

Closed(D) == {S \in SUBSET D : \A r \in S : RelAncestors(r) \subseteq S}

IsDir(F, p) == p \in DOMAIN F /\ F[p].t = "dir"

\* cp -a src dst, both resolved: the exit status st and the file system it
\* leaves; n counts the failures that come from the environment.  A failing
\* cp leaves any part of the copy behind.
CpOutcomes(F, src, dst) ==
    LET target == IF IsDir(F, dst) THEN At(dst, Slash \o straftlst(src, "/")) ELSE dst
        T      == Tree(F, src)
    IN  IF \/ src \notin DOMAIN F
           \/ ~IsDir(F, Parent(target))
           \/ (target \in DOMAIN F /\ ~IsDir(F, target) /\ IsDir(F, src))
           \/ Below(src, target)
        THEN {[st |-> 1, fs |-> F, n |-> 0]}
        ELSE {[st |-> 0, fs |-> Graft(F, target, T), n |-> 0]}
             \cup {[st |-> 1, fs |-> Graft(F, target, [r \in S |-> T[r]]), n |-> 1] :
                     S \in Closed(DOMAIN T)}

\* rm -r p, resolved: a failing rm leaves p and any part of what is below it
RmOne(F, p) ==
    IF p \notin DOMAIN F THEN {[st |-> 1, fs |-> F, n |-> 0]}
    ELSE LET T == Tree(F, p)
         IN  {[st |-> 0, fs |-> Prune(F, Under(F, p)), n |-> 0]}
             \cup {[st |-> 1, n |-> 1,
                    fs |-> Prune(F, Under(F, p) \ {At(p, r) : r \in S})] :
                     S \in {X \in Closed(DOMAIN T) : <<>> \in X}}

\* rm -r ps[1] ps[2] ...: every operand is tried, the status is the worst
RECURSIVE RmFrom(_, _, _, _, _)
RmFrom(F, ps, i, st, n) ==
    IF i > Len(ps) THEN {[st |-> st, fs |-> F, n |-> n]}
    ELSE UNION {RmFrom(o.fs, ps, i + 1, IF o.st = 0 THEN st ELSE 1, n + o.n) :
                  o \in RmOne(F, ps[i])}

RmOutcomes(F, ps) == RmFrom(F, ps, 1, 0, 0)

\* Path resolution needs search permission on every directory on the way
Searchable(F, P, q) == \A a \in Ancestors(q) : IsDir(F, a) /\ a \notin P.nox

\* lstat(s) == 0, from directory dir
lstat(F, P, dir, s) ==
    LET q == Resolve(dir, s)
    IN  /\ s # <<>>
        /\ q \in DOMAIN F
        /\ Searchable(F, P, q)
        /\ (s # <<>> /\ s[Len(s)] = "/") => IsDir(F, q)

\* access_wx with the permissions of the file left out
access_wx_unchecked(F, P, dir, s) == lstat(F, P, dir, s)

\* access(s, W_OK | X_OK) == 0
access_wx(F, P, dir, s) ==
    lstat(F, P, dir, s) /\ Resolve(dir, s) \notin (P.now \cup P.nox)

\* access(s, F_OK) == 0
access_f(F, P, dir, s) == lstat(F, P, dir, s)

\* opendir(s) != NULL
opendir(F, P, dir, s) ==
    lstat(F, P, dir, s) /\ IsDir(F, Resolve(dir, s)) /\ Resolve(dir, s) \notin P.nor

\* The entries of directory p, "." and ".." left out
Entries(F, p) == {q \in DOMAIN F : q # p /\ q # Root /\ Parent(q) = p}

\* Number of entries of a directory, "." and ".." included
count_dir(F, P, dir, s) ==
    IF opendir(F, P, dir, s) THEN Cardinality(Entries(F, Resolve(dir, s))) + 2 ELSE -1

\* 1 when the immutable attribute is set, 0 when not, -1 when it cannot be read
check_immutable_bit(P, q) ==
    IF q \in P.ioerr THEN -1 ELSE IF q \in P.immut THEN 1 ELSE 0

--------------------------------------------------------------------------
(* The machine the program runs on *)

NAME_MAX == 255
PATH_MAX == 4096

pA == <<"/", "a">>
pB == <<"/", " ", "b">>
pH == <<"/", "h">>
pAF == pA \o <<"/", "f">>
pBF == pB \o <<"/", "f">>
pAD == pA \o <<"/", "d">>
pADX == pAD \o <<"/", "x">>
pADS == pAD \o <<"/", "s">>
pAC == pA \o <<"/", "c">>
pAB == pA \o <<"/", "b">>

trash_dir == pH \o <<"/", "T">>
trash_files_dir == trash_dir \o <<"/", "f", "i", "l", "e", "s">>
trash_info_dir == trash_dir \o <<"/", "i", "n", "f", "o">>

\* workspaces[cur_ws].path
ws_path == pA

Dir == [t |-> "dir", d |-> <<>>]
Reg(c) == [t |-> "reg", d |-> <<c>>]

Disk0 ==
    (Root :> Dir) @@ (pA :> Dir) @@ (pB :> Dir) @@ (pH :> Dir)
    @@ (trash_dir :> Dir) @@ (trash_files_dir :> Dir) @@ (trash_info_dir :> Dir)
    @@ (pAF :> Reg("A")) @@ (pBF :> Reg("B"))
    @@ (pAD :> Dir) @@ (pADX :> Reg("X")) @@ (pADS :> Dir)
    @@ (pAC :> [t |-> "chr", d |-> <<>>]) @@ (pAB :> [t |-> "blk", d |-> <<>>])

NoPerm == [now |-> {}, nox |-> {}, nor |-> {}, immut |-> {}, ioerr |-> {}]

\* The access environments the runs start from
Perms ==
    { NoPerm,
      [NoPerm EXCEPT !.now = {pB}],
      [NoPerm EXCEPT !.immut = {pAF}],
      [NoPerm EXCEPT !.ioerr = {pAD}],
      [NoPerm EXCEPT !.now = {pADS}] }

\* The arguments given to the trash command
argF == <<"f">>
argD == <<"d">>
argB == <<"b">>
TrashBatches ==
    { <<argF>>, <<pBF>>, <<argD>>, <<argF, pBF>>, <<pAC, argF>>, <<argB>> }

--------------------------------------------------------------------------
(* PermissionValidator *)

Msg(kind, path) == <<kind, path>>

\* g is [flag, msgs]: the global recur_perm_error_flag and what was printed.
\* The recursive calls of recur_perm_check: todo holds the directories still to
\* be opened; their results are not looked at, only the global flag is.
RECURSIVE ReadSubdirs(_, _, _, _)
ReadSubdirs(F, P, todo, g) ==
    IF todo = {} THEN g
    ELSE LET dirname == CHOOSE d \in todo : TRUE
             subs == IF opendir(F, P, Root, dirname)
                     THEN {e \in Entries(F, dirname) : IsDir(F, e)} ELSE {}
             denied == {e \in subs : ~access_wx(F, P, Root, e)}
         IN  ReadSubdirs(F, P, (todo \ {dirname}) \cup subs,
                         [flag |-> IF denied # {} THEN 1 ELSE g.flag,
                          msgs |-> g.msgs \cup {Msg("Permission denied", e) : e \in denied}])

recur_perm_check(F, P, dirname, g) ==
    IF ~opendir(F, P, Root, dirname) THEN [st |-> EXIT_FAILURE, g |-> g]
    ELSE LET g2 == ReadSubdirs(F, P, {dirname}, g)
         IN  [st |-> IF g2.flag = 1 THEN EXIT_FAILURE ELSE EXIT_SUCCESS, g |-> g2]

\* wx_dir_check that leaves recur_perm_error_flag as the last check left it
wx_dir_check_flag_kept(F, P, file, parent, flag) ==
    LET imm == check_immutable_bit(P, Resolve(Root, file))
        fail(m) == [st |-> EXIT_FAILURE, flag |-> flag, msgs |-> m]
        ok == [st |-> EXIT_SUCCESS, flag |-> flag, msgs |-> {}]
    IN  IF imm = -1 THEN fail({Msg("check_immutable_bit", file)})
        ELSE IF imm = 1 THEN fail({Msg("Directory is immutable", file)})
        ELSE IF ~access_wx(F, P, Root, parent)
             THEN fail({Msg("Permission denied", parent)})
        ELSE IF ~(count_dir(F, P, Root, parent) > 2) THEN ok
        ELSE IF ~access_wx(F, P, Root, file)
             THEN fail({Msg("Permission denied", file)})
        ELSE IF ~(count_dir(F, P, Root, file) > 2) THEN ok
        ELSE LET r == recur_perm_check(F, P, file, [flag |-> flag, msgs |-> {}])
             IN  [st |-> r.st, flag |-> r.g.flag, msgs |-> r.g.msgs]

\* The directory case of wx_parent_check
wx_dir_check(F, P, file, parent, flag) ==
    LET imm == check_immutable_bit(P, Resolve(Root, file))
        fail(m) == [st |-> EXIT_FAILURE, flag |-> flag, msgs |-> m]
        ok == [st |-> EXIT_SUCCESS, flag |-> flag, msgs |-> {}]
    IN  IF imm = -1 THEN fail({Msg("check_immutable_bit", file)})
        ELSE IF imm = 1 THEN fail({Msg("Directory is immutable", file)})
        ELSE IF ~access_wx(F, P, Root, parent)
             THEN fail({Msg("Permission denied", parent)})
        ELSE IF ~(count_dir(F, P, Root, parent) > 2) THEN ok
        ELSE IF ~access_wx(F, P, Root, file)
             THEN fail({Msg("Permission denied", file)})
        ELSE IF ~(count_dir(F, P, Root, file) > 2) THEN ok
        ELSE LET r == recur_perm_check(F, P, file, [flag |-> 0, msgs |-> {}])
             IN  [st |-> r.st, flag |-> r.g.flag, msgs |-> r.g.msgs]

\* wx_file_check with the test of the parent directory left out
wx_file_check_parent_untested(F, P, file, parent, imm, flag) ==
    IF imm = -1
    THEN [st |-> EXIT_FAILURE, flag |-> flag, msgs |-> {Msg("check_immutable_bit", file)}]
    ELSE IF imm = 1
    THEN [st |-> EXIT_FAILURE, flag |-> flag, msgs |-> {Msg("File is immutable", file)}]
    ELSE [st |-> EXIT_SUCCESS, flag |-> flag, msgs |-> {}]

\* wx_file_check with the parent directory tested before the attribute
wx_file_check_parent_first(F, P, file, parent, imm, flag) ==
    IF ~access_wx(F, P, Root, parent)
    THEN [st |-> EXIT_FAILURE, flag |-> flag, msgs |-> {Msg("Permission denied", parent)}]
    ELSE IF imm = -1
    THEN [st |-> EXIT_FAILURE, flag |-> flag, msgs |-> {Msg("check_immutable_bit", file)}]
    ELSE IF imm = 1
    THEN [st |-> EXIT_FAILURE, flag |-> flag, msgs |-> {Msg("File is immutable", file)}]
    ELSE [st |-> EXIT_SUCCESS, flag |-> flag, msgs |-> {}]

\* The regular-file case, and with imm = 0 the symlink, socket and FIFO case
wx_file_check(F, P, file, parent, imm, flag) ==
    IF imm = -1
    THEN [st |-> EXIT_FAILURE, flag |-> flag, msgs |-> {Msg("check_immutable_bit", file)}]
    ELSE IF imm = 1
    THEN [st |-> EXIT_FAILURE, flag |-> flag, msgs |-> {Msg("File is immutable", file)}]
    ELSE IF access_wx(F, P, Root, parent)
    THEN [st |-> EXIT_SUCCESS, flag |-> flag, msgs |-> {}]
    ELSE [st |-> EXIT_FAILURE, flag |-> flag, msgs |-> {Msg("Permission denied", parent)}]

\* The test of the parent left out: no file is found to lie in the root
parent_is_root_unhandled(file) == FALSE

\* strbfrlst finds nothing before the last slash of file: file lies in the root
\* directory when it begins with a slash and holds no other
parent_is_root(file) ==
    file[1] = "/" /\ strcntchr(SubSeq(file, 2, Len(file)), "/") = -1

\* wx_parent_check once the final slash is removed from file
wx_parent_check_stripped(F, P, file, flag) ==
    LET p0   == strbfrlst(file, "/")
        atRoot == parent_is_root(file)
        parent == IF p0 = NULL THEN Root ELSE p0
        type == F[Resolve(Root, file)].t
    IN  IF ~lstat(F, P, Root, file)
        THEN [st |-> EXIT_FAILURE, flag |-> flag,
              msgs |-> {Msg("No such file or directory", file)}]
        ELSE IF p0 = NULL /\ ~atRoot
        THEN [st |-> EXIT_FAILURE, flag |-> flag,
              msgs |-> {Msg("Error getting parent directory", file)}]
        ELSE IF type = "dir" THEN wx_dir_check(F, P, file, parent, flag)
        ELSE IF type = "reg"
        THEN wx_file_check(F, P, file, parent, check_immutable_bit(P, Resolve(Root, file)), flag)
        ELSE IF type \in {"sock", "fifo", "lnk"}
        THEN wx_file_check(F, P, file, parent, 0, flag)
        ELSE [st |-> EXIT_FAILURE, flag |-> flag,
              msgs |-> {Msg("Unsupported file type", file)}]

\* The result r of the checks, with file as wx_parent_check leaves it
WithFile(r, file) == [st |-> r.st, flag |-> r.flag, msgs |-> r.msgs, file |-> file]

\* The final slash of a path name removed, in place
StripSlash(file0) ==
    IF file0[Len(file0)] = "/" THEN SubSeq(file0, 1, Len(file0) - 1) ELSE file0

\* file0 is an absolute path; the result holds the status, the global flag,
\* the messages and file0 as the function leaves it
wx_parent_check(F, P, file0, flag) ==
    WithFile(wx_parent_check_stripped(F, P, StripSlash(file0), flag), StripSlash(file0))

\* Make sure we are trashing a valid file
check_trash_file(F, P, dir, deq_file) ==
    LET tmp_cmd == IF deq_file[1] = "/" THEN deq_file ELSE ws_path \o Slash \o deq_file
    IN  IF strncmp0(tmp_cmd, trash_dir, Len(tmp_cmd))
        THEN [st |-> EXIT_FAILURE, msgs |-> {Msg("Cannot trash", tmp_cmd)}]
        ELSE IF strncmp0(tmp_cmd, trash_dir, Len(trash_dir))
        THEN [st |-> EXIT_FAILURE, msgs |-> {Msg("Use 'trash del'", tmp_cmd)}]
        ELSE IF ~lstat(F, P, dir, deq_file)
        THEN [st |-> EXIT_FAILURE, msgs |-> {Msg("lstat", deq_file)}]
        ELSE IF F[Resolve(dir, deq_file)].t \in {"blk", "chr"}
        THEN [st |-> EXIT_FAILURE, msgs |-> {Msg("Cannot trash a device", deq_file)}]
        ELSE [st |-> EXIT_SUCCESS, msgs |-> {}]

--------------------------------------------------------------------------
(* MetadataCodec *)

\* The characters url_encode escapes, with their two hexadecimal digits ("é"
\* stands for one byte above 127)
HexOf ==
    (" " :> <<"2", "0">>) @@ ("%" :> <<"2", "5">>) @@ ("\n" :> <<"0", "A">>)
        @@ ("é" :> <<"E", "9">>)

\* The encoding of str[lo..hi], character by character; the range is halved
\* so that paths of PATH_MAX characters can be computed
RECURSIVE EncodeRange(_, _, _)
EncodeRange(str, lo, hi) ==
    IF lo > hi THEN <<>>
    ELSE IF lo = hi
    THEN (IF str[lo] \in DOMAIN HexOf THEN <<"%">> \o HexOf[str[lo]] ELSE <<str[lo]>>)
    ELSE EncodeRange(str, lo, (lo + hi) \div 2) \o EncodeRange(str, (lo + hi) \div 2 + 1, hi)

\* Percent-encoding of a path; NULL for an empty string
url_encode(str) == IF str = <<>> THEN NULL ELSE EncodeRange(str, 1, Len(str))

\* The character two hexadecimal digits stand for
from_hex(h, l) ==
    LET C == {c \in DOMAIN HexOf : HexOf[c] = <<h, l>>}
    IN  IF C = {} THEN "?" ELSE CHOOSE c \in C : TRUE

\* The decoding of str[lo..hi], left to right: skip is the number of
\* characters at lo that belong to an escape begun before lo, and the result
\* gives the number that belong to one begun in the range and end after hi
RECURSIVE DecodeRange(_, _, _, _)
DecodeJoin(l, r) == [out |-> l.out \o r.out, skip |-> r.skip]

DecodeRest(str, mid, hi, l) == DecodeJoin(l, DecodeRange(str, mid + 1, hi, l.skip))

DecodeRange(str, lo, hi, skip) ==
    IF lo > hi THEN [out |-> <<>>, skip |-> skip]
    ELSE IF lo = hi
    THEN (IF skip > 0 THEN [out |-> <<>>, skip |-> skip - 1]
          ELSE IF str[lo] = "%" /\ lo + 2 <= Len(str)
          THEN [out |-> <<from_hex(str[lo + 1], str[lo + 2])>>, skip |-> 2]
          ELSE [out |-> <<str[lo]>>, skip |-> 0])
    ELSE DecodeRest(str, (lo + hi) \div 2, hi, DecodeRange(str, lo, (lo + hi) \div 2, skip))

url_decode(str) == IF str = <<>> THEN NULL ELSE DecodeRange(str, 1, Len(str), 0).out

Digit(n) == <<"0", "1", "2", "3", "4", "5", "6", "7", "8", "9">>[n + 1]

\* The suffix shared by the files of one batch, from the time of the batch
gen_date_suffix(tm) == <<Digit(tm)>>

TrashInfoHeader == <<"[", "T", "r", "a", "s", "h", " ", "I", "n", "f", "o", "]", "\n">>
PathKey == <<"P", "a", "t", "h", "=">>
DeletionDate(tm) ==
    <<"D", "e", "l", "e", "t", "i", "o", "n", "D", "a", "t", "e", "=">>
    \o <<"2", "0", "2", "2", "-", "1", "-", "1", "T", "0", ":", "0", ":", Digit(tm), "\n">>

\* What trash_element prints into the info file
InfoText(url_str, tm) ==
    TrashInfoHeader \o PathKey \o url_str \o <<"\n">> \o DeletionDate(tm)

\* fgets(line, size, fp): the next line of text from position i, at most
\* size - 1 characters of it
fgets(text, i, size) ==
    LET ends == {j \in i..Len(text) : text[j] = "\n" \/ j = i + size - 2}
        e    == IF ends = {} THEN Len(text) ELSE CHOOSE j \in ends : \A k \in ends : j <= k
    IN  SubSeq(text, i, e)

\* The loop of untrash_element over the lines of the info file
RECURSIVE ReadPath(_, _, _)
ReadPath(text, i, orig_path) ==
    IF i > Len(text) THEN orig_path
    ELSE LET line == fgets(text, i, PATH_MAX + 6)
         IN  IF Len(line) >= 5 /\ SubSeq(line, 1, 5) = <<"P", "a", "t", "h", "=">>
             THEN IF Len(line) = 5 THEN orig_path
                  ELSE ReadPath(text, i + Len(line), SubSeq(line, 6, Len(line)))
             ELSE ReadPath(text, i + Len(line), orig_path)

--------------------------------------------------------------------------
(* TrashCatalog *)

\* The characters of file names, in the order of their codes
CharOrder == <<"\n", " ", "%", ".", "/", "0", "1", "2", "3", "4", "5", "6", "7", "8", "9",
               "A", "B", "T", "X", "a", "b", "c", "d", "e", "f", "h", "i", "l", "n",
               "o", "r", "s", "t", "x", "~">>

Rank(c) == IF \E i \in 1..Len(CharOrder) : CharOrder[i] = c
           THEN CHOOSE i \in 1..Len(CharOrder) : CharOrder[i] = c ELSE 0

\* strcmp(a, b) < 0
RECURSIVE StrLess(_, _, _)
StrLess(a, b, i) ==
    IF i > Len(b) THEN FALSE
    ELSE IF i > Len(a) THEN TRUE
    ELSE IF a[i] = b[i] THEN StrLess(a, b, i + 1)
    ELSE Rank(a[i]) < Rank(b[i])

xalphasort(a, b) == StrLess(a, b, 1)

\* The filter of scandir: "." and ".." and the hidden files are left out
skip_files(name) == name[1] # "."

RECURSIVE SortNames(_)
SortNames(S) ==
    IF S = {} THEN <<>>
    ELSE LET m == CHOOSE x \in S : \A y \in S \ {x} : xalphasort(x, y)
         IN  <<m>> \o SortNames(S \ {m})

\* scandir(dir, &list, skip_files, xalphasort): the names of the entries
scandir(F, dir) ==
    SortNames({n \in {Rel(dir \o Slash, q) : q \in Entries(F, dir)} : skip_files(n)})

--------------------------------------------------------------------------
(* TrashWriter: trash_files_args and trash_element *)

NoBatch == [args |-> <<>>, i |-> 1, suffix |-> <<>>, tm |-> 0, exit_status |-> EXIT_SUCCESS]
NoEl == [file |-> <<>>, full_path |-> <<>>, file_suffix |-> <<>>]

ManualMsgs == {"Failed removing trash file. Try removing it manually",
               "Failed removing temporary files from Trash. Try removing them manually"}

\* Print msgs; n more failures came from the environment
Emit(msgs, n) ==
    /\ hist.faults + n <= MaxFaults
    /\ out' = out \cup msgs
    /\ hist' = [hist EXCEPT !.manual = @ \/ (\E m \in msgs : m[1] \in ManualMsgs),
                            !.faults = @ + n]

\* TrashedName that cuts one character less than the code does
TrashedName_one_short(filename, suffix) ==
    LET size == (Len(filename) + Len(suffix) + 11) - NAME_MAX
    IN  (IF size > 0
         THEN SubSeq(filename, 1, Len(filename) - size) \o <<"~">>
         ELSE filename) \o <<".">> \o suffix

\* The name a file is given in the trash: its name, trimmed and ended with a
\* tilde when too long, a dot and the suffix
TrashedName(filename, suffix) ==
    LET size == (Len(filename) + Len(suffix) + 11) - NAME_MAX
    IN  (IF size > 0
         THEN SubSeq(filename, 1, Len(filename) - size - 1) \o <<"~">>
         ELSE filename) \o <<".">> \o suffix

\* trash_element from the result w of wx_parent_check to the copy: the name of
\* the trashed file
trash_element_name(w, rel, flag, suffix, file) ==
    LET file1 == IF rel THEN file ELSE w.file
        full_path == IF rel THEN w.file ELSE <<>>
        filename == straftlst(IF rel THEN full_path ELSE file1, "/")
        none == [st |-> EXIT_FAILURE, flag |-> flag, msgs |-> {}, el |-> NoEl, why |-> ""]
    IN  IF w.st # 0
        THEN [none EXCEPT !.msgs = w.msgs, !.flag = w.flag, !.why = "te_denied"]
        ELSE IF filename = NULL
        THEN [none EXCEPT !.msgs = {Msg("Error getting file name", file)},
                          !.flag = w.flag, !.why = "te_name"]
        ELSE [st |-> EXIT_SUCCESS, flag |-> w.flag, msgs |-> w.msgs, why |-> "te_checked",
              el |-> [file |-> file1, full_path |-> full_path,
                      file_suffix |-> TrashedName(filename, suffix)]]

\* trash_element up to the copy: the checks and the name of the trashed file
trash_element_begin(F, P, dir, flag, suffix, file) ==
    IF ~lstat(F, P, dir, file)
    THEN [st |-> EXIT_FAILURE, flag |-> flag, msgs |-> {Msg("lstat", file)}, el |-> NoEl,
          why |-> "te_lstat"]
    ELSE trash_element_name(
             wx_parent_check(F, P, IF file[1] # "/" THEN ws_path \o Slash \o file ELSE file,
                             flag),
             file[1] # "/", flag, suffix, file)

\* The original path trash_element records
OrigPath(e) == IF e.file[1] # "/" THEN e.full_path ELSE e.file

TrashInfoExt == <<".", "t", "r", "a", "s", "h", "i", "n", "f", "o">>

trash_file_of(e) == trash_files_dir \o Slash \o e.file_suffix
info_file_of(e) == trash_info_dir \o Slash \o e.file_suffix \o TrashInfoExt

NoMade == [name |-> <<>>, path |-> <<>>, tree |-> <<>>, list0 |-> <<>>, fs1 |-> <<>>]

\* trash_element returns r to the loop of trash_files_args
TrashElementReturns(r, e) ==
    /\ ret' = r
    /\ made' = IF r = EXIT_SUCCESS
               THEN [name |-> el.file_suffix, path |-> Resolve(cwd, el.file),
                     tree |-> Tree(fs0, Resolve(cwd, el.file)),
                     list0 |-> scandir(fs0, trash_files_dir), fs1 |-> fs']
               ELSE made
    /\ ev' = e
    /\ batch' = [batch EXCEPT !.exit_status = r, !.i = @ + 1]
    /\ pc' = "trash_loop"

\* A command is read at the prompt: what the last one left to look at is reset
CommandBegins(e, n, msgs) ==
    /\ pc = "prompt"
    /\ hist.cmds < MaxCmds
    /\ hist.faults + n <= MaxFaults
    /\ hist' = [hist EXCEPT !.cmds = @ + 1, !.faults = @ + n]
    /\ out' = msgs
    /\ ev' = e
    /\ ret' = EXIT_SUCCESS
    /\ el' = NoEl
    /\ fs0' = fs
    /\ UNCHANGED made

\* The trash command with file arguments: the batch gets its suffix
trash_files_args(args) ==
    /\ CommandBegins("trash_files_args", 0, {})
    /\ batch' = [args |-> args, i |-> 1, suffix |-> gen_date_suffix(clock), tm |-> clock,
                 exit_status |-> EXIT_SUCCESS]
    /\ pc' = "trash_loop"
    /\ UNCHANGED <<fs, perm, cwd, clock, recur_perm_error_flag, exit_code>>

\* c, the result of check_trash_file, is a refusal
Invalid(c) == c.st = EXIT_FAILURE /\ Emit(c.msgs, 0)

\* TrashArgInvalid that leaves the status of the batch as it was
TrashArgInvalid_status_kept ==
    /\ pc = "trash_loop"
    /\ batch.i <= Len(batch.args)
    /\ Invalid(check_trash_file(fs, perm, cwd, batch.args[batch.i]))
    /\ batch' = [batch EXCEPT !.i = @ + 1]
    /\ ev' = "invalid"
    /\ UNCHANGED <<fs, perm, cwd, clock, recur_perm_error_flag, pc, el, ret, fs0, made,
                   exit_code>>

\* An argument check_trash_file refuses
TrashArgInvalid ==
    /\ pc = "trash_loop"
    /\ batch.i <= Len(batch.args)
    /\ Invalid(check_trash_file(fs, perm, cwd, batch.args[batch.i]))
    /\ batch' = [batch EXCEPT !.exit_status = EXIT_FAILURE, !.i = @ + 1]
    /\ ev' = "invalid"
    /\ UNCHANGED <<fs, perm, cwd, clock, recur_perm_error_flag, pc, el, ret, fs0, made,
                   exit_code>>

\* b, the result of trash_element_begin, is a refusal
Refused(b) ==
    /\ b.st = EXIT_FAILURE
    /\ Emit(b.msgs, 0)
    /\ recur_perm_error_flag' = b.flag
    /\ TrashElementReturns(EXIT_FAILURE, b.why)

\* b, the result of trash_element_begin, lets the element through
Checked(b) ==
    /\ b.st = EXIT_SUCCESS
    /\ Emit(b.msgs, 0)
    /\ recur_perm_error_flag' = b.flag
    /\ el' = b.el

\* An argument trash_element refuses before the copy
TrashElementRefuses ==
    /\ pc = "trash_loop"
    /\ batch.i <= Len(batch.args)
    /\ check_trash_file(fs, perm, cwd, batch.args[batch.i]).st = EXIT_SUCCESS
    /\ Refused(trash_element_begin(fs, perm, cwd, recur_perm_error_flag,
                                   batch.suffix, batch.args[batch.i]))
    /\ fs0' = fs
    /\ el' = [NoEl EXCEPT !.file = batch.args[batch.i]]
    /\ UNCHANGED <<fs, perm, cwd, clock, exit_code>>

\* An argument that passes the checks: the copy is next
TrashElementChecks ==
    /\ pc = "trash_loop"
    /\ batch.i <= Len(batch.args)
    /\ check_trash_file(fs, perm, cwd, batch.args[batch.i]).st = EXIT_SUCCESS
    /\ Checked(trash_element_begin(fs, perm, cwd, recur_perm_error_flag,
                                   batch.suffix, batch.args[batch.i]))
    /\ fs0' = fs
    /\ pc' = "cp"
    /\ ev' = "te_checked"
    /\ UNCHANGED <<fs, perm, cwd, clock, batch, ret, made, exit_code>>

\* cp -a file dest
TrashCopy ==
    /\ pc = "cp"
    /\ \E o \in CpOutcomes(fs, Resolve(cwd, el.file), trash_file_of(el)) :
        /\ fs' = o.fs
        /\ IF o.st # EXIT_SUCCESS
           THEN /\ Emit({Msg("Failed copying file to Trash", el.file)}, o.n)
                /\ TrashElementReturns(EXIT_FAILURE, "te_cp_failed")
           ELSE /\ pc' = "info"
                /\ ev' = "te_copied"
                /\ UNCHANGED <<out, hist, ret, batch, made>>
    /\ UNCHANGED <<perm, cwd, clock, recur_perm_error_flag, el, fs0, exit_code>>

\* fopen(info_file, "w"), url_encode and the fprintf of the info file
TrashInfo ==
    /\ pc = "info"
    /\ \E opened \in BOOLEAN, encoded \in BOOLEAN :
        LET url_str == IF encoded THEN url_encode(OrigPath(el)) ELSE NULL
            created == Graft(fs, info_file_of(el), (<<>> :> [t |-> "reg", d |-> <<>>]))
        IN  IF ~(opened /\ IsDir(fs, trash_info_dir))
            THEN /\ encoded
                 /\ Emit({Msg("fopen", info_file_of(el))}, IF opened THEN 0 ELSE 1)
                 /\ pc' = "undo_copy"
                 /\ ev' = "te_fopen_failed"
                 /\ UNCHANGED <<fs, ret, batch, made>>
            ELSE IF url_str = NULL
            THEN /\ fs' = created
                 /\ Emit({Msg("Failed encoding path", el.file)}, 1)
                 /\ TrashElementReturns(EXIT_FAILURE, "te_encode_failed")
            ELSE /\ fs' = [created EXCEPT ![info_file_of(el)].d = InfoText(url_str, batch.tm)]
                 /\ pc' = "rm"
                 /\ ev' = "te_info_written"
                 /\ UNCHANGED <<out, hist, ret, batch, made>>
    /\ UNCHANGED <<perm, cwd, clock, recur_perm_error_flag, el, fs0, exit_code>>

\* The info file could not be created: rm -r trash_file
TrashUndoCopy ==
    /\ pc = "undo_copy"
    /\ \E o \in RmOutcomes(fs, <<trash_file_of(el)>>) :
        /\ fs' = o.fs
        /\ Emit(IF o.st # EXIT_SUCCESS
                THEN {Msg("Failed removing trash file. Try removing it manually",
                          trash_file_of(el))}
                ELSE {}, o.n)
        /\ TrashElementReturns(EXIT_FAILURE,
                               IF o.st # EXIT_SUCCESS THEN "te_info_manual" ELSE "te_info_undone")
    /\ UNCHANGED <<perm, cwd, clock, recur_perm_error_flag, el, fs0, exit_code>>

\* rm -r file
TrashRemove ==
    /\ pc = "rm"
    /\ \E o \in RmOutcomes(fs, <<Resolve(cwd, el.file)>>) :
        /\ fs' = o.fs
        /\ IF o.st # EXIT_SUCCESS
           THEN /\ Emit({Msg("Failed removing file", el.file)}, o.n)
                /\ pc' = "undo_all"
                /\ ev' = "te_rm_failed"
                /\ UNCHANGED <<ret, batch, made>>
           ELSE /\ TrashElementReturns(EXIT_SUCCESS, "te_trashed")
                /\ UNCHANGED <<out, hist>>
    /\ UNCHANGED <<perm, cwd, clock, recur_perm_error_flag, el, fs0, exit_code>>

\* The original could not be removed: rm -r trash_file info_file
TrashUndoAll ==
    /\ pc = "undo_all"
    /\ \E o \in RmOutcomes(fs, <<trash_file_of(el), info_file_of(el)>>) :
        /\ fs' = o.fs
        /\ IF o.st # EXIT_SUCCESS
           THEN /\ Emit({Msg("Failed removing temporary files from Trash. Try removing them manually",
                             trash_file_of(el))}, o.n)
                /\ TrashElementReturns(EXIT_FAILURE, "te_rm_manual")
           ELSE /\ TrashElementReturns(EXIT_SUCCESS, "te_rm_undone")
                /\ UNCHANGED <<out, hist>>
    /\ UNCHANGED <<perm, cwd, clock, recur_perm_error_flag, el, fs0, exit_code>>

\* The end of the batch
TrashBatchReturns ==
    /\ pc = "trash_loop"
    /\ batch.i > Len(batch.args)
    /\ exit_code' = batch.exit_status
    /\ pc' = "prompt"
    /\ ev' = "trash_returned"
    /\ UNCHANGED <<fs, perm, cwd, clock, recur_perm_error_flag, batch, el, out, ret, fs0, hist,
                   made>>

--------------------------------------------------------------------------
(* RestoreEngine: untrash_element *)

\* UntrashCopy with the trashed file removed whatever the copy back returned
UntrashCopy_removes_always(F, dir, undel_file, undel_info, url_decoded) ==
    UNION {
      {[st |-> IF o.st # EXIT_SUCCESS \/ r.st # EXIT_SUCCESS THEN EXIT_FAILURE ELSE EXIT_SUCCESS,
        fs |-> r.fs,
        why |-> IF o.st # EXIT_SUCCESS THEN "ue_cp_failed"
                ELSE IF r.st # EXIT_SUCCESS THEN "ue_rm_failed" ELSE "ue_restored",
        n |-> o.n + r.n,
        msgs |-> IF o.st # EXIT_SUCCESS
                 THEN {Msg("Failed restoring trashed file", undel_file)}
                 ELSE IF r.st # EXIT_SUCCESS
                 THEN {Msg("Failed removing info file", undel_info)} ELSE {}] :
         r \in RmOutcomes(o.fs, <<undel_file, undel_info>>)} :
        o \in CpOutcomes(F, undel_file, Resolve(dir, url_decoded))}

\* The outcomes of the copy back and of the removal of the trashed file
UntrashCopy(F, dir, undel_file, undel_info, url_decoded) ==
    LET cps == CpOutcomes(F, undel_file, Resolve(dir, url_decoded))
    IN  {[st |-> EXIT_FAILURE, fs |-> o.fs, why |-> "ue_cp_failed", n |-> o.n,
          msgs |-> {Msg("Failed restoring trashed file", undel_file)}] :
            o \in {c \in cps : c.st # EXIT_SUCCESS}}
        \cup UNION {
          {IF r.st # EXIT_SUCCESS
           THEN [st |-> EXIT_FAILURE, fs |-> r.fs, why |-> "ue_rm_failed", n |-> r.n,
                 msgs |-> {Msg("Failed removing info file", undel_info)}]
           ELSE [st |-> EXIT_SUCCESS, fs |-> r.fs, why |-> "ue_restored", n |-> 0,
                 msgs |-> {}] :
             r \in RmOutcomes(o.fs, <<undel_file, undel_info>>)} :
            o \in {c \in cps : c.st = EXIT_SUCCESS}}

\* untrash_element with the workspace guessed as the place of a file whose info
\* record is not found
untrash_element_guesses(F, P, dir, file) ==
    UntrashCopy(F, dir, trash_files_dir \o Slash \o file,
                trash_info_dir \o Slash \o file \o TrashInfoExt, ws_path \o Slash \o file)

\* The outcomes of untrash_element(file): status, file system, messages
untrash_element(F, P, dir, file) ==
    LET undel_file == trash_files_dir \o Slash \o file
        undel_info == trash_info_dir \o Slash \o file \o TrashInfoExt
        raw == ReadPath(F[undel_info].d, 1, NULL)
        orig_path == IF raw[Len(raw)] = "\n" THEN SubSeq(raw, 1, Len(raw) - 1) ELSE raw
        url_decoded == url_decode(orig_path)
        p0 == strbfrlst(url_decoded, "/")
        atRoot == parent_is_root(url_decoded)
        parent == IF p0 = NULL THEN Root ELSE p0
        fail(why, m) == {[st |-> EXIT_FAILURE, fs |-> F, why |-> why, n |-> 0, msgs |-> m]}
    IN  IF ~(undel_info \in DOMAIN F /\ F[undel_info].t = "reg")
        THEN fail("ue_no_info",
                  {Msg("Info file not found. Try restoring the file manually", file)})
        ELSE IF raw = NULL THEN fail("ue_no_path", {})
        ELSE IF url_decoded = NULL
        THEN fail("ue_decode", {Msg("Failed decoding path", orig_path)})
        ELSE IF p0 = NULL /\ ~atRoot THEN fail("ue_no_parent", {})
        ELSE IF ~access_f(F, P, dir, parent)
        THEN fail("ue_parent_missing", {Msg("No such file or directory", parent)})
        ELSE IF ~access_wx(F, P, dir, parent)
        THEN fail("ue_parent_denied", {Msg("Permission denied", parent)})
        ELSE UntrashCopy(F, dir, undel_file, undel_info, url_decoded)

\* The names in the trash, in either store
StoredNames(F) ==
    {Rel(trash_files_dir \o Slash, q) : q \in Entries(F, trash_files_dir)}
    \cup {SubSeq(n, 1, Len(n) - Len(TrashInfoExt)) :
            n \in {m \in {Rel(trash_info_dir \o Slash, q) : q \in Entries(F, trash_info_dir)} :
                     Len(m) > Len(TrashInfoExt)}}

\* untrash with the names of trashed files as arguments
untrash_function_args(names) ==
    /\ CommandBegins("untrash_function", 0, {})
    /\ batch' = [NoBatch EXCEPT !.args = names]
    /\ pc' = "untrash_loop"
    /\ UNCHANGED <<fs, perm, cwd, clock, recur_perm_error_flag, exit_code>>

\* One argument of untrash: untrash_element
UntrashArg ==
    /\ pc = "untrash_loop"
    /\ batch.i <= Len(batch.args)
    /\ \E o \in untrash_element(fs, perm, cwd, batch.args[batch.i]) :
        /\ fs' = o.fs
        /\ Emit(o.msgs, o.n)
        /\ ret' = o.st
        /\ ev' = o.why
        /\ batch' = [batch EXCEPT !.i = @ + 1,
                                  !.exit_status = IF o.st # 0 THEN EXIT_FAILURE ELSE @]
    /\ fs0' = fs
    /\ el' = [NoEl EXCEPT !.file = batch.args[batch.i]]
    /\ UNCHANGED <<perm, cwd, clock, recur_perm_error_flag, pc, made, exit_code>>

UntrashReturns ==
    /\ pc = "untrash_loop"
    /\ batch.i > Len(batch.args)
    /\ exit_code' = batch.exit_status
    /\ pc' = "prompt"
    /\ ev' = "untrash_returned"
    /\ UNCHANGED <<fs, perm, cwd, clock, recur_perm_error_flag, batch, el, out, ret, fs0, hist,
                   made>>

--------------------------------------------------------------------------
(* Purge: remove_from_trash and trash_clear; the listing *)

\* rm -r rm_file: the info record is left
remove_file_from_trash_content_only(F, name) ==
    RmOutcomes(F, <<trash_files_dir \o Slash \o name>>)

\* rm -r rm_file rm_info
remove_file_from_trash(F, name) ==
    RmOutcomes(F, <<trash_files_dir \o Slash \o name,
                    trash_info_dir \o Slash \o name \o TrashInfoExt>>)

\* trash del with the names of trashed files as arguments
remove_from_trash_args(names) ==
    /\ CommandBegins("remove_from_trash", 0, {})
    /\ batch' = [NoBatch EXCEPT !.args = names]
    /\ pc' = "del_loop"
    /\ UNCHANGED <<fs, perm, cwd, clock, recur_perm_error_flag, exit_code>>

RemoveArg ==
    /\ pc = "del_loop"
    /\ batch.i <= Len(batch.args)
    /\ \E o \in remove_file_from_trash(fs, batch.args[batch.i]) :
        /\ fs' = o.fs
        /\ Emit({}, o.n)
        /\ ret' = o.st
        /\ ev' = IF o.st # 0 THEN "rf_failed" ELSE "rf_removed"
        /\ batch' = [batch EXCEPT !.i = @ + 1,
                                  !.exit_status = IF o.st # 0 THEN EXIT_FAILURE ELSE @]
    /\ fs0' = fs
    /\ el' = [NoEl EXCEPT !.file = batch.args[batch.i]]
    /\ UNCHANGED <<perm, cwd, clock, recur_perm_error_flag, pc, made, exit_code>>

RemoveReturns ==
    /\ pc = "del_loop"
    /\ batch.i > Len(batch.args)
    /\ exit_code' = batch.exit_status
    /\ pc' = "prompt"
    /\ ev' = "remove_returned"
    /\ UNCHANGED <<fs, perm, cwd, clock, recur_perm_error_flag, batch, el, out, ret, fs0, hist,
                   made>>

\* xchdir(dir) == 0
xchdir_ok(F, P, dir, s) == s # <<>> /\ lstat(F, P, dir, s) /\ IsDir(F, Resolve(dir, s))

\* The loop of trash_clear over the entries scandir returned
RECURSIVE ClearFrom(_, _, _, _, _, _)
ClearFrom(F, trash_files, i, st, n, msgs) ==
    IF i > Len(trash_files) THEN {[st |-> st, fs |-> F, n |-> n, msgs |-> msgs]}
    ELSE UNION {ClearFrom(o.fs, trash_files, i + 1,
                          IF o.st # 0 THEN EXIT_FAILURE ELSE st, n + o.n,
                          IF o.st # 0
                          THEN msgs \cup {Msg("Error removing trashed file", trash_files[i])}
                          ELSE msgs) :
                  o \in RmOutcomes(F, <<trash_files_dir \o Slash \o trash_files[i],
                                        trash_info_dir \o Slash \o trash_files[i]
                                            \o TrashInfoExt>>)}

trash_clear ==
    /\ pc = "prompt"
    /\ hist.cmds < MaxCmds
    /\ IF ~xchdir_ok(fs, perm, cwd, trash_files_dir)
       THEN /\ CommandBegins("trash_clear", 0, {Msg("xchdir", trash_files_dir)})
            /\ exit_code' = EXIT_FAILURE
            /\ UNCHANGED <<fs, cwd>>
       ELSE LET trash_files == scandir(fs, trash_files_dir)
            IN  IF Len(trash_files) = 0
                THEN /\ CommandBegins("trash_clear", 0, {})
                     /\ exit_code' = EXIT_SUCCESS
                     /\ cwd' = trash_files_dir
                     /\ UNCHANGED fs
                ELSE \E o \in ClearFrom(fs, trash_files, 1, EXIT_SUCCESS, 0, {}) :
                        /\ fs' = o.fs
                        /\ IF xchdir_ok(o.fs, perm, trash_files_dir, ws_path)
                           THEN /\ CommandBegins("trash_clear", o.n, o.msgs)
                                /\ cwd' = ws_path
                                /\ exit_code' = o.st
                           ELSE /\ CommandBegins("trash_clear", o.n,
                                                 o.msgs \cup {Msg("xchdir", ws_path)})
                                /\ cwd' = trash_files_dir
                                /\ exit_code' = EXIT_FAILURE
    /\ UNCHANGED <<perm, clock, recur_perm_error_flag, pc, batch>>

\* trash, or trash ls: list the files in the trash
list_trashed_files ==
    /\ pc = "prompt"
    /\ IF ~xchdir_ok(fs, perm, cwd, trash_files_dir)
       THEN /\ CommandBegins("list_trashed_files", 0, {Msg("xchdir", trash_files_dir)})
            /\ exit_code' = EXIT_FAILURE
            /\ UNCHANGED cwd
       ELSE IF Len(scandir(fs, trash_files_dir)) <= 0
       THEN /\ CommandBegins("list_trashed_files", 0, {})
            /\ exit_code' = EXIT_SUCCESS
            /\ cwd' = trash_files_dir
       ELSE IF xchdir_ok(fs, perm, trash_files_dir, ws_path)
       THEN /\ CommandBegins("list_trashed_files", 0, {})
            /\ exit_code' = EXIT_SUCCESS
            /\ cwd' = ws_path
       ELSE /\ CommandBegins("list_trashed_files", 0, {Msg("xchdir", ws_path)})
            /\ exit_code' = EXIT_FAILURE
            /\ cwd' = trash_files_dir
    /\ UNCHANGED <<fs, perm, clock, recur_perm_error_flag, pc, batch>>

--------------------------------------------------------------------------
(* The prompt and the clock *)

\* The prompt makes the workspace path the working directory again.  Commands
\* chained on one line run with no prompt between them, so this step may or
\* may not come between two commands.
check_cwd ==
    /\ pc = "prompt"
    /\ cwd # ws_path
    /\ xchdir_ok(fs, perm, cwd, ws_path)
    /\ cwd' = ws_path
    /\ ev' = "check_cwd"
    /\ UNCHANGED <<fs, perm, clock, recur_perm_error_flag, pc, batch, el, out, ret, fs0,
                   hist, made, exit_code>>

\* A second goes by
Tick ==
    /\ pc = "prompt"
    /\ clock < MaxClock
    /\ clock' = clock + 1
    /\ ev' = "tick"
    /\ UNCHANGED <<fs, perm, cwd, recur_perm_error_flag, pc, batch, el, out, ret, fs0,
                   hist, made, exit_code>>

--------------------------------------------------------------------------
(* The specification *)

\* The disk after f of the workspace was trashed at time 0
Disk1 ==
    LET F == Prune(Disk0, {pAF})
        G == Graft(F, trash_files_dir \o <<"/", "f", ".", "0">>, (<<>> :> Reg("A")))
    IN  Graft(G, trash_info_dir \o <<"/", "f", ".", "0">> \o TrashInfoExt,
              (<<>> :> [t |-> "reg", d |-> InfoText(url_encode(pAF), 0)]))

Init ==
    /\ fs \in {Disk0, Disk1}
    /\ perm \in Perms
    /\ cwd = ws_path
    /\ clock = 0
    /\ recur_perm_error_flag = 0
    /\ pc = "prompt"
    /\ batch = NoBatch
    /\ el = NoEl
    /\ out = {}
    /\ ret = EXIT_SUCCESS
    /\ ev = "init"
    /\ fs0 = fs
    /\ hist = [cmds |-> 0, faults |-> 0, manual |-> FALSE, typed |-> 0]
    /\ made = IF fs = Disk1
              THEN [name |-> <<"f", ".", "0">>, path |-> pAF, tree |-> Tree(Disk0, pAF),
                    list0 |-> <<>>, fs1 |-> Disk1]
              ELSE NoMade
    /\ exit_code = EXIT_SUCCESS

\* File p of disk F in the trash under name, its info record holding text
Trashed(F, p, name, text) ==
    LET G == Graft(Prune(F, Under(F, p)), trash_files_dir \o Slash \o name, Tree(F, p))
    IN  Graft(G, trash_info_dir \o Slash \o name \o TrashInfoExt,
              (<<>> :> [t |-> "reg", d |-> text]))

nameF0 == <<"f", ".", "0">>
nameX0 == <<"x", ".", "0">>

\* Trash stores untrash may find: a sound entry, an entry whose info record is
\* gone, records with no Path line, with no text, with an empty Path value, an
\* entry whose original directory is gone, an entry with an encoded path
RestoreDisks ==
    { Disk1,
      Prune(Disk1, {trash_info_dir \o Slash \o nameF0 \o TrashInfoExt}),
      Trashed(Disk0, pAF, nameF0, TrashInfoHeader \o DeletionDate(0)),
      Trashed(Disk0, pAF, nameF0, <<>>),
      Trashed(Disk0, pAF, nameF0, InfoText(<<>>, 0)),
      Trashed(Disk0, pAF, nameF0, TrashInfoHeader \o PathKey),
      Prune(Trashed(Disk0, pADX, nameX0, InfoText(url_encode(pADX), 0)), {pAD, pADS}),
      Trashed(Disk0, pBF, nameF0, InfoText(url_encode(pBF), 0)) }

\* untrash on the trash stores it may find
InitRestore ==
    /\ fs \in RestoreDisks
    /\ perm \in Perms
    /\ cwd = ws_path
    /\ clock = 0
    /\ recur_perm_error_flag = 0
    /\ pc = "prompt"
    /\ batch = NoBatch
    /\ el = NoEl
    /\ out = {}
    /\ ret = EXIT_SUCCESS
    /\ ev = "init"
    /\ fs0 = fs
    /\ hist = [cmds |-> 0, faults |-> 0, manual |-> FALSE, typed |-> 0]
    /\ made = NoMade
    /\ exit_code = EXIT_SUCCESS

NextRestore ==
    \/ pc = "prompt" /\ \E n \in StoredNames(fs) : untrash_function_args(<<n>>)
    \/ UntrashArg
    \/ UntrashReturns

SpecRestore == InitRestore /\ [][NextRestore]_vars

Next ==
    \/ pc = "prompt" /\ \E args \in TrashBatches : trash_files_args(args)
    \/ TrashArgInvalid
    \/ TrashElementRefuses
    \/ TrashElementChecks
    \/ TrashCopy
    \/ TrashInfo
    \/ TrashUndoCopy
    \/ TrashRemove
    \/ TrashUndoAll
    \/ TrashBatchReturns
    \/ pc = "prompt" /\ \E n \in StoredNames(fs) : untrash_function_args(<<n>>)
    \/ UntrashArg
    \/ UntrashReturns
    \/ pc = "prompt" /\ \E n \in StoredNames(fs) : remove_from_trash_args(<<n>>)
    \/ RemoveArg
    \/ RemoveReturns
    \/ trash_clear
    \/ list_trashed_files
    \/ check_cwd
    \/ Tick

Spec == Init /\ [][Next]_vars

--------------------------------------------------------------------------
(* The vocabulary of the claims *)

\* trash_element has just returned to the loop
TrashElementReturned ==
    /\ pc = "trash_loop"
    /\ ev \in {"te_lstat", "te_denied", "te_name", "te_cp_failed", "te_encode_failed",
               "te_info_undone", "te_info_manual", "te_trashed", "te_rm_undone",
               "te_rm_manual"}

\* trash_element is past its checks: copying, writing, removing or undoing
TrashElementWorks == pc \in {"cp", "info", "rm", "undo_copy", "undo_all"}

\* The absolute path of the file an element operation was given
Original(e) == Resolve(cwd, e.file)

FilesEntry(n) == trash_files_dir \o Slash \o n
InfoEntry(n) == trash_info_dir \o Slash \o n \o TrashInfoExt

\* The path an info file records, decoded; NULL when it records none
RecordedPath(text) ==
    LET raw == ReadPath(text, 1, NULL)
    IN  IF raw = NULL THEN NULL
        ELSE url_decode(IF raw[Len(raw)] = "\n" THEN SubSeq(raw, 1, Len(raw) - 1) ELSE raw)

\* The names of the (content, info) pairs of the trash that record path p
PairsFor(F, p) ==
    {n \in StoredNames(F) :
        /\ FilesEntry(n) \in DOMAIN F
        /\ InfoEntry(n) \in DOMAIN F
        /\ F[InfoEntry(n)].t = "reg"
        /\ RecordedPath(F[InfoEntry(n)].d) = p}

\* The element was given a name in the trash, and the name was free on entry
NameWasFree(e) ==
    /\ e.file_suffix # <<>>
    /\ trash_file_of(e) \notin DOMAIN fs0
    /\ info_file_of(e) \notin DOMAIN fs0

\* Something of the element is in the files-store or in the info-store
Leftover(F, e) == trash_file_of(e) \in DOMAIN F \/ info_file_of(e) \in DOMAIN F

\* The manual-cleanup error was printed for the element
ManualReported(e) == \E m \in out : m[1] \in ManualMsgs /\ m[2] = trash_file_of(e)

\* A content entry without its info record, or an info record without its
\* content entry
Mismatch(F) ==
    \E n \in StoredNames(F) : ~(FilesEntry(n) \in DOMAIN F /\ InfoEntry(n) \in DOMAIN F)

\* A command of the trash subsystem has just returned
CommandReturned ==
    /\ pc = "prompt"
    /\ ev \in {"trash_returned", "untrash_returned", "remove_returned", "trash_clear"}

--------------------------------------------------------------------------
(* The claims *)

\* C1: trash_element returns success only if the copy, the info record and
\* the removal of the original all succeeded; whenever it returns success the
\* original path no longer exists and the trash holds exactly one (content,
\* .trashinfo) pair whose decoded Path is the absolute original path.
C1_SuccessContract ==
    (TrashElementReturned /\ ret = EXIT_SUCCESS) =>
        /\ ev = "te_trashed"
        /\ Original(el) \notin DOMAIN fs
        /\ Cardinality(PairsFor(fs, Original(el))) = 1

\* C2: no content is lost by a failing trash of a directory tree: during and
\* after trash_element every file that was under the path on entry is still at
\* its original place or in the content copy in the files-store.
C2_NoContentLost ==
    (TrashElementWorks \/ TrashElementReturned) =>
        \A q \in Under(fs0, Original(el)) :
            \/ fs0[q].t = "dir"
            \/ q \in DOMAIN fs
            \/ At(trash_file_of(el), Rel(Original(el), q)) \in DOMAIN fs

\* C3: when the removal of the original fails after the copy and the info
\* record were written, trash_element deletes both and the call fails with the
\* original still there; when that deletion succeeds nothing of the element is
\* left in the files-store or the info-store.
C3_RollbackAborts ==
    (TrashElementReturned /\ ev \in {"te_rm_undone", "te_rm_manual"}) =>
        /\ ret = EXIT_FAILURE
        /\ Original(el) \in DOMAIN fs
        /\ (ev = "te_rm_undone" => ~Leftover(fs, el))

\* C4: when encoding the path or creating the info record fails after the
\* content copy was made, and the deletion of the copy does not fail itself,
\* the call returns failure, leaves neither a content entry nor an info file
\* and the original as it was.
C4_InfoFailureUndone ==
    (TrashElementReturned /\ ev \in {"te_encode_failed", "te_info_undone"}
                          /\ NameWasFree(el)) =>
        /\ ret = EXIT_FAILURE
        /\ ~Leftover(fs, el)
        /\ Tree(fs, Original(el)) = Tree(fs0, Original(el))

\* C5: invariant I1: when a command returns, every content entry has its info
\* record and every info record its content entry, unless a manual-cleanup
\* error was reported in the run.
C5_PairsMatch == (CommandReturned /\ Mismatch(fs)) => hist.manual

\* What the permission validator is to reject: a missing source, a parent
\* directory without write and search permission, the immutable attribute, a
\* denied subdirectory, a file type that cannot be trashed
Rejectable(F, P, p) ==
    \/ p \notin DOMAIN F
    \/ Parent(p) \in P.now \cup P.nox
    \/ p \in P.immut
    \/ (IsDir(F, p) /\ \E q \in Under(F, p) : q # p /\ IsDir(F, q) /\ q \in P.now \cup P.nox)
    \/ F[p].t \notin {"dir", "reg", "lnk", "sock", "fifo"}

\* C6: an argument the permission validator is to reject makes trash fail
\* before any copy is started: the step taken for it leaves the file system as
\* it is, records the failure and goes on to the next argument.
C6_RejectedBeforeCopy ==
    [][(/\ pc = "trash_loop"
        /\ batch.i <= Len(batch.args)
        /\ Rejectable(fs, perm, Resolve(cwd, batch.args[batch.i])))
       => (/\ fs' = fs
           /\ pc' = "trash_loop"
           /\ batch'.i = batch.i + 1
           /\ batch'.exit_status = EXIT_FAILURE)]_vars

\* trash_element has refused a file the validator is to reject
C6_Witness ==
    /\ TrashElementReturned
    /\ ev = "te_denied"
    /\ ret = EXIT_FAILURE
    /\ fs = fs0
    /\ Rejectable(fs0, perm, Original(el))

\* C7: when the copy into the files-store fails, trash_element returns failure
\* and has no side effects: the source is as it was and neither a content
\* entry nor an info record of the element exists.
C7_CopyFailureNoEffect ==
    (TrashElementReturned /\ ev = "te_cp_failed" /\ NameWasFree(el)) =>
        /\ ret = EXIT_FAILURE
        /\ Tree(fs, Original(el)) = Tree(fs0, Original(el))
        /\ ~Leftover(fs, el)

\* C8: when a rollback deletion fails, trash_element returns failure and the
\* manual-cleanup error is printed; a failed trash_element leaves nothing in the
\* trash without that error.
C8_ManualCleanupReported ==
    (TrashElementReturned /\ NameWasFree(el)) =>
        /\ (ev \in {"te_info_manual", "te_rm_manual"} =>
                ret = EXIT_FAILURE /\ ManualReported(el))
        /\ ((ret = EXIT_FAILURE /\ Leftover(fs, el)) => ManualReported(el))

Names(list) == {list[i] : i \in DOMAIN list}

\* C9: round trip: a successful trash_element adds exactly one entry, named
\* <basename>.<suffix>, to the listing; restoring the entry it made, with
\* nothing changed in between, gives the file back at its original path with
\* the content it had, removes both halves of the entry and leaves the listing
\* as it was before the file was trashed.
C9_RoundTrip ==
    /\ (TrashElementReturned /\ ret = EXIT_SUCCESS) =>
          LET before == Names(scandir(fs0, trash_files_dir))
              after  == Names(scandir(fs, trash_files_dir))
          IN  /\ el.file_suffix = straftlst(Original(el), "/") \o <<".">> \o batch.suffix
              /\ el.file_suffix \notin before
              /\ after = before \cup {el.file_suffix}
    /\ (pc = "untrash_loop" /\ ev = "ue_restored" /\ el.file = made.name /\ fs0 = made.fs1) =>
          /\ Tree(fs, made.path) = made.tree
          /\ FilesEntry(made.name) \notin DOMAIN fs
          /\ InfoEntry(made.name) \notin DOMAIN fs
          /\ scandir(fs, trash_files_dir) = made.list0

\* C10: when the copy back succeeded and the deletion of the content entry and
\* the info record fails, untrash_element reports success, with a warning.
C10_DeletionFailureIsSuccess ==
    (pc = "untrash_loop" /\ ev = "ue_rm_failed") =>
        /\ ret = EXIT_SUCCESS
        /\ Msg("Failed removing info file", InfoEntry(el.file)) \in out

\* untrash_element has just returned to the loop of untrash_function
UntrashElementReturned ==
    /\ pc = "untrash_loop"
    /\ ev \in {"ue_no_info", "ue_no_path", "ue_decode", "ue_no_parent", "ue_parent_missing",
               "ue_parent_denied", "ue_cp_failed", "ue_rm_failed", "ue_restored"}

\* C11: when the copy back to the original path fails, untrash_element
\* returns failure and the trash is as it was: the content entry and the info
\* record are unchanged and nothing was deleted.
C11_CopyBackFailureKeepsEntry ==
    (UntrashElementReturned /\ ev = "ue_cp_failed") =>
        /\ ret = EXIT_FAILURE
        /\ Tree(fs, trash_dir) = Tree(fs0, trash_dir)

\* The copy back of an entry with both halves has failed
C11_Witness ==
    /\ UntrashElementReturned
    /\ ev = "ue_cp_failed"
    /\ FilesEntry(el.file) \in DOMAIN fs
    /\ InfoEntry(el.file) \in DOMAIN fs
    /\ Tree(fs, trash_dir) = Tree(fs0, trash_dir)

\* The lines of a text, each without its newline
RECURSIVE LinesFrom(_, _, _)
LinesFrom(text, i, cur) ==
    IF i > Len(text) THEN (IF cur = <<>> THEN <<>> ELSE <<cur>>)
    ELSE IF text[i] = "\n" THEN <<cur>> \o LinesFrom(text, i + 1, <<>>)
    ELSE LinesFrom(text, i + 1, Append(cur, text[i]))

\* The values of the Path lines of an info record, in their order
PathValues(text) ==
    LET ls == LinesFrom(text, 1, <<>>)
        ks == SelectSeq(ls, LAMBDA l : IsPrefix(PathKey, l))
    IN  [k \in DOMAIN ks |-> SubSeq(ks[k], Len(PathKey) + 1, Len(ks[k]))]

\* The info record of entry n is missing, has no Path line or an empty Path
NoRecordedPath(F, n) ==
    \/ InfoEntry(n) \notin DOMAIN F
    \/ PathValues(F[InfoEntry(n)].d) = <<>>
    \/ PathValues(F[InfoEntry(n)].d)[1] = <<>>

Destination(F, n) == url_decode(PathValues(F[InfoEntry(n)].d)[1])

\* The parent directory of the original path of entry n is missing
ParentMissing(F, n) == Parent(Destination(F, n)) \notin DOMAIN F

\* The parent directory is there and does not grant write and search
ParentDenied(F, P, n) ==
    /\ Parent(Destination(F, n)) \in DOMAIN F
    /\ Parent(Destination(F, n)) \in P.now \cup P.nox

\* C13: before the copy back untrash_element tests the parent directory of the
\* decoded original path: when it is missing the call fails with 'No such file
\* or directory', when it is there without write and search permission the call
\* fails with 'Permission denied' and not the other error; in both cases
\* nothing is copied and the trash entry is as it was.
C13_ParentTested ==
    (UntrashElementReturned /\ ~NoRecordedPath(fs0, el.file)) =>
        LET parent == Parent(Destination(fs0, el.file))
        IN  /\ ParentMissing(fs0, el.file) =>
                /\ ret = EXIT_FAILURE
                /\ fs = fs0
                /\ Msg("No such file or directory", parent) \in out
                /\ Msg("Permission denied", parent) \notin out
            /\ ParentDenied(fs0, perm, el.file) =>
                /\ ret = EXIT_FAILURE
                /\ fs = fs0
                /\ Msg("Permission denied", parent) \in out
                /\ Msg("No such file or directory", parent) \notin out

\* untrash_element has refused an entry whose original directory does not
\* grant write and search
C13_Witness ==
    /\ UntrashElementReturned
    /\ ~NoRecordedPath(fs0, el.file)
    /\ ParentDenied(fs0, perm, el.file)
    /\ FilesEntry(el.file) \in DOMAIN fs
    /\ ret = EXIT_FAILURE

\* list_trashed_files or trash_clear has just returned
ListOrClearReturned == pc = "prompt" /\ ev \in {"list_trashed_files", "trash_clear"}

\* C14: when list_trashed_files or trash_clear has returned, on whatever exit
\* path (listed, cleared, empty trash, a directory that cannot be entered),
\* the working directory is the workspace path and not the files directory of
\* the trash.
C14_WorkingDirectoryRestored ==
    ListOrClearReturned => (cwd = ws_path /\ cwd # trash_files_dir)

\* C15: the name trash_element makes for an element is free in the trash at
\* the moment it is made: when the copy is about to start neither the content
\* entry nor the info record of that name exists, so no entry is ever
\* overwritten or merged into.
C15_NameUniqueAtCreation ==
    pc = "cp" =>
        /\ trash_file_of(el) \notin DOMAIN fs
        /\ info_file_of(el) \notin DOMAIN fs

--------------------------------------------------------------------------
(* The path codec on its own: a path is written into an info record and read
   back *)

\* The longest path tried has MaxComponents components of NAME_MAX characters
MaxComponents == 15

\* The characters the short paths are made of
CodecChars == {"a", " ", "%", "é", "\n", "/"}

\* A path with no empty component
WellFormed(p) ==
    /\ p[1] = "/"
    /\ p[Len(p)] # "/"
    /\ \A i \in 1..(Len(p) - 1) : ~(p[i] = "/" /\ p[i + 1] = "/")

\* k components of NAME_MAX times the character c
LongPath(k, c) ==
    [i \in 1..(k * (NAME_MAX + 1)) |-> IF i % (NAME_MAX + 1) = 1 THEN "/" ELSE c]

\* Valid absolute paths: the short ones over CodecChars and long ones, all
\* shorter than PATH_MAX
CodecPaths ==
    {p \in UNION {[1..n -> CodecChars] : n \in 2..4} : WellFormed(p)}
        \cup {p \in {LongPath(k, c) : k \in 1..MaxComponents, c \in {"a", " ", "é"}} :
                Len(p) < PATH_MAX}

codecName == <<"p", ".", "0">>

InitCodec ==
    /\ fs = Disk0
    /\ perm = NoPerm
    /\ cwd = ws_path
    /\ clock = 0
    /\ recur_perm_error_flag = 0
    /\ pc = "codec"
    /\ batch = NoBatch
    /\ el \in {[file |-> p, full_path |-> <<>>, file_suffix |-> codecName] : p \in CodecPaths}
    /\ out = {}
    /\ ret = EXIT_SUCCESS
    /\ ev = "init"
    /\ fs0 = fs
    /\ hist = [cmds |-> 0, faults |-> 0, manual |-> FALSE, typed |-> 0]
    /\ made = NoMade
    /\ exit_code = EXIT_SUCCESS

\* trash_element writes the info record of the path
CodecWrite ==
    /\ pc = "codec"
    /\ ev = "init"
    /\ fs' = Graft(fs, info_file_of(el),
                   (<<>> :> [t |-> "reg",
                             d |-> InfoText(url_encode(OrigPath(el)), batch.tm)]))
    /\ ev' = "codec_written"
    /\ UNCHANGED <<perm, cwd, clock, recur_perm_error_flag, pc, batch, el, out, ret, fs0,
                   hist, made, exit_code>>

\* untrash_element reads the record back: made.path is the decoded path
CodecRead ==
    /\ pc = "codec"
    /\ ev = "codec_written"
    /\ made' = [made EXCEPT !.name = el.file_suffix,
                            !.path = RecordedPath(fs[info_file_of(el)].d)]
    /\ ev' = "codec_read"
    /\ UNCHANGED <<fs, perm, cwd, clock, recur_perm_error_flag, pc, batch, el, out, ret,
                   fs0, hist, exit_code>>

NextCodec == CodecWrite \/ CodecRead

SpecCodec == InitCodec /\ [][NextCodec]_vars

\* C16: for every valid absolute path, with spaces, percent signs or bytes
\* above 127 in it, the Path value trash_element wrote for the path, read back
\* by untrash_element, stripped of its newline and decoded, is the path.
C16_CodecRoundTrip == ev = "codec_read" => made.path = el.file

\* The codec alone gives every path back
C16_PureRoundTrip == ev = "codec_read" => url_decode(url_encode(el.file)) = el.file

--------------------------------------------------------------------------
(* The name of the trashed file on its own: base names of every length *)

\* The lengths of the batch suffix: the one digit of the model's clock and the
\* fourteen digits of a date to the second
SuffixLens == {1, 14}

InitName ==
    /\ fs = Disk0
    /\ perm = NoPerm
    /\ cwd = ws_path
    /\ clock = 0
    /\ recur_perm_error_flag = 0
    /\ pc = "name"
    /\ batch \in {[NoBatch EXCEPT !.suffix = [i \in 1..k |-> "0"]] : k \in SuffixLens}
    /\ el \in {[NoEl EXCEPT !.file = [i \in 1..(n + 1) |-> IF i = 1 THEN "/" ELSE "a"]] :
                 n \in 1..NAME_MAX}
    /\ out = {}
    /\ ret = EXIT_SUCCESS
    /\ ev = "init"
    /\ fs0 = fs
    /\ hist = [cmds |-> 0, faults |-> 0, manual |-> FALSE, typed |-> 0]
    /\ made = NoMade
    /\ exit_code = EXIT_SUCCESS

\* trash_element makes the name of the trashed file
NameMake ==
    /\ pc = "name"
    /\ ev = "init"
    /\ el' = [el EXCEPT !.file_suffix = TrashedName(straftlst(el.file, "/"), batch.suffix)]
    /\ ev' = "te_named"
    /\ UNCHANGED <<fs, perm, cwd, clock, recur_perm_error_flag, pc, batch, out, ret, fs0,
                   hist, made, exit_code>>

NextName == NameMake

SpecName == InitName /\ [][NextName]_vars

\* The base name of the file given: all of it after the leading slash
GivenBase == SubSeq(el.file, 2, Len(el.file))

\* The part of the trashed name before the dot and the suffix
NameBase == SubSeq(el.file_suffix, 1, Len(el.file_suffix) - Len(batch.suffix) - 1)

\* The name needs no shortening
NameFits == Len(GivenBase) + 1 + Len(batch.suffix) + Len(TrashInfoExt) <= NAME_MAX

\* C17: for every base name of up to NAME_MAX characters and the suffix of
\* the batch, the trashed name with ".trashinfo" appended is no longer than
\* NAME_MAX; the name ends with a dot and the whole suffix; a name that fits is
\* the base name unchanged, and a shortened one is a proper prefix of the base
\* name followed by the one character '~' right before the dot.
C17_NameLengthBound ==
    ev = "te_named" =>
        /\ Len(el.file_suffix) + Len(TrashInfoExt) <= NAME_MAX
        /\ Len(el.file_suffix) > Len(batch.suffix) + 1
        /\ SubSeq(el.file_suffix, Len(el.file_suffix) - Len(batch.suffix),
                  Len(el.file_suffix)) = <<".">> \o batch.suffix
        /\ IF NameFits THEN NameBase = GivenBase
           ELSE /\ NameBase[Len(NameBase)] = "~"
                /\ Len(NameBase) <= Len(GivenBase)
                /\ SubSeq(NameBase, 1, Len(NameBase) - 1)
                       = SubSeq(GivenBase, 1, Len(NameBase) - 1)

\* A base name of NAME_MAX characters has been shortened
C17_Witness ==
    /\ ev = "te_named"
    /\ Len(GivenBase) = NAME_MAX
    /\ ~NameFits
    /\ NameBase[Len(NameBase)] = "~"
    /\ Len(el.file_suffix) + Len(TrashInfoExt) = NAME_MAX

--------------------------------------------------------------------------
(* The permission check of a directory on its own: a deeper tree, every
   subdirectory with every kind of access *)

pADST == pADS \o <<"/", "t">>
pADSTV == pADST \o <<"/", "v">>
pADU == pAD \o <<"/", "u">>
pAL == pA \o <<"/", "l">>
pAK == pA \o <<"/", "k">>
pAP == pA \o <<"/", "p">>

\* /a/d holds x, s/t/v and u; /a holds a symbolic link l, a socket k and a
\* FIFO p as well
DiskDeep ==
    Disk0 @@ (pADST :> Dir) @@ (pADSTV :> Dir) @@ (pADU :> Dir)
        @@ (pAL :> [t |-> "lnk", d |-> <<>>]) @@ (pAK :> [t |-> "sock", d |-> <<>>])
        @@ (pAP :> [t |-> "fifo", d |-> <<>>])

\* Each subdirectory of /a/d is fully accessible, or not writable, or not
\* searchable, or not readable
PermsDeep ==
    {[NoPerm EXCEPT !.now = {q \in DOMAIN m : m[q] = "now"},
                    !.nox = {q \in DOMAIN m : m[q] = "nox"},
                    !.nor = {q \in DOMAIN m : m[q] = "nor"}] :
        m \in [{pADS, pADST, pADSTV, pADU} -> {"rwx", "now", "nox", "nor"}]}

\* The files the attribute is set on, or cannot be read from
AttrFiles == {pAF, pAD, pAL, pAK, pAP}

\* At most one file immutable, at most one whose attribute cannot be read,
\* and the parent directory /a writable or not
PermsAttr ==
    {[NoPerm EXCEPT !.immut = i, !.ioerr = e, !.now = w] :
        i \in {{}} \cup {{q} : q \in AttrFiles},
        e \in {{}} \cup {{q} : q \in AttrFiles},
        w \in {{}, {pA}}}

\* The arguments given to the trash command
PermBatches == {<<argD>>, <<argF>>, <<<<"l">>>>, <<<<"k">>>>, <<<<"p">>>>}

InitPerm ==
    /\ fs = DiskDeep
    /\ perm \in PermsDeep \cup PermsAttr
    /\ cwd = ws_path
    /\ clock = 0
    /\ recur_perm_error_flag = 0
    /\ pc = "prompt"
    /\ batch = NoBatch
    /\ el = NoEl
    /\ out = {}
    /\ ret = EXIT_SUCCESS
    /\ ev = "init"
    /\ fs0 = fs
    /\ hist = [cmds |-> 0, faults |-> 0, manual |-> FALSE, typed |-> 0]
    /\ made = NoMade
    /\ exit_code = EXIT_SUCCESS

NextPerm ==
    \/ \E args \in PermBatches : trash_files_args(args)
    \/ TrashElementRefuses
    \/ TrashElementChecks
    \/ TrashBatchReturns

SpecPerm == InitPerm /\ [][NextPerm]_vars

\* wx_parent_check has just let a directory through, or refused it
DirectoryChecked ==
    /\ ev \in {"te_checked", "te_denied"}
    /\ el.file # <<>>
    /\ Original(el) \in DOMAIN fs0
    /\ IsDir(fs0, Original(el))

\* The checks of directory q itself pass: not immutable, its parent and q
\* itself grant write and search, and q can be read
OwnChecksPass(F, P, q) ==
    /\ check_immutable_bit(P, q) = 0
    /\ access_wx(F, P, Root, Parent(q))
    /\ access_wx(F, P, Root, q)
    /\ q \notin P.nor

\* The subdirectories below q, at any depth, that do not grant write and
\* search
DeniedBelow(F, P, q) ==
    {e \in DOMAIN F : e # q /\ Below(q, e) /\ IsDir(F, e) /\ ~access_wx(F, P, Root, e)}

\* C18: for a directory whose own checks pass, the check fails exactly when
\* some subdirectory at some depth does not grant write and search, each such
\* subdirectory is reported, and a refused directory is left as it was.
C18_EverySubdirectoryChecked ==
    (DirectoryChecked /\ OwnChecksPass(fs0, perm, Original(el))) =>
        /\ (ev = "te_denied") <=> (DeniedBelow(fs0, perm, Original(el)) # {})
        /\ \A e \in DeniedBelow(fs0, perm, Original(el)) :
               Msg("Permission denied", e) \in out
        /\ ev = "te_denied" => (ret = EXIT_FAILURE /\ fs = fs0)

\* wx_parent_check has just let an element through, or refused it
ElementChecked ==
    /\ ev \in {"te_checked", "te_denied"}
    /\ el.file # <<>>
    /\ Original(el) \in DOMAIN fs0

\* The attribute of q is set, or cannot be read
AttributeDenies(P, q) == q \in P.immut \cup P.ioerr

\* C19: a regular file or directory whose immutable attribute is set, or
\* cannot be read, is refused before the parent directory is tested and before
\* anything is copied; a symbolic link, socket or FIFO is let through exactly
\* when its parent directory grants write and search, whatever the attribute.
C19_ImmutableNeverTrashed ==
    ElementChecked =>
        /\ (fs0[Original(el)].t \in {"reg", "dir"} /\ AttributeDenies(perm, Original(el))) =>
               /\ ev = "te_denied"
               /\ ret = EXIT_FAILURE
               /\ fs = fs0
               /\ Msg("Permission denied", Parent(Original(el))) \notin out
        /\ (fs0[Original(el)].t \in {"reg", "dir"} /\ Original(el) \in perm.immut
                /\ Original(el) \notin perm.ioerr) =>
               \E m \in out : m[1] \in {"File is immutable", "Directory is immutable"}
                              /\ m[2] = Original(el)
        /\ fs0[Original(el)].t \in {"lnk", "sock", "fifo"} =>
               ((ev = "te_checked") <=> access_wx(fs0, perm, Root, Parent(Original(el))))

\* An immutable regular file in a directory that is not writable has been
\* refused
C19_Witness ==
    /\ ElementChecked
    /\ fs0[Original(el)].t = "reg"
    /\ Original(el) \in perm.immut
    /\ Parent(Original(el)) \in perm.now
    /\ ev = "te_denied"
    /\ Msg("File is immutable", Original(el)) \in out

\* The next argument of the trash command is a block or character device
DeviceNext ==
    /\ pc = "trash_loop"
    /\ batch.i <= Len(batch.args)
    /\ lstat(fs, perm, cwd, batch.args[batch.i])
    /\ fs[Resolve(cwd, batch.args[batch.i])].t \in {"blk", "chr"}

\* The trash command was given one device and nothing else, and returns
DeviceAloneReturns ==
    /\ pc = "trash_loop"
    /\ Len(batch.args) = 1
    /\ batch.i > 1
    /\ Resolve(cwd, batch.args[1]) \in DOMAIN fs
    /\ fs[Resolve(cwd, batch.args[1])].t \in {"blk", "chr"}
    /\ pc' = "prompt"

\* C20: an argument that is a block or character device is always refused as
\* a file of unsupported type: the step that deals with it fails the
\* argument, reports it, goes on to the next argument and leaves the device and
\* the trash as they were; the command given the device alone returns failure.
C20_DeviceNeverTrashed ==
    [][/\ (DeviceNext /\ <<pc, batch>>' # <<pc, batch>>) =>
              /\ fs' = fs
              /\ pc' = "trash_loop"
              /\ batch'.i = batch.i + 1
              /\ batch'.exit_status = EXIT_FAILURE
              /\ \E m \in out' : /\ m[1] \in {"Cannot trash a device", "Unsupported file type"}
                                 /\ m[2] = batch.args[batch.i]
       /\ DeviceAloneReturns => exit_code' = EXIT_FAILURE]_vars

\* A block device given to the trash command has been refused
C20_Witness ==
    /\ ev = "invalid"
    /\ pc = "trash_loop"
    /\ batch.i = 2
    /\ fs[Resolve(cwd, batch.args[1])].t = "blk"
    /\ fs = fs0
    /\ batch.exit_status = EXIT_FAILURE
    /\ Msg("Cannot trash a device", batch.args[1]) \in out

--------------------------------------------------------------------------
(* Selection at the screen: untrash and trash del with no file name *)

\* Tokens that may be typed at the selection prompt over one run
MaxTokens == 2

tokQ == <<"q">>
tokStar == <<"*">>
tokA == <<"a">>
tokAll == <<"a", "l", "l">>
tokX == <<"x">>

Digits == <<"0", "1", "2", "3", "4", "5", "6", "7", "8", "9">>

\* is_number(str): digits only
is_number(str) ==
    str # <<>> /\ \A k \in 1..Len(str) : \E d \in 1..Len(Digits) : str[k] = Digits[d]

DigitValue(c) == (CHOOSE d \in 1..Len(Digits) : Digits[d] = c) - 1

\* atoi(str) of a string of digits
RECURSIVE atoi(_)
atoi(str) ==
    IF str = <<>> THEN 0
    ELSE 10 * atoi(SubSeq(str, 1, Len(str) - 1)) + DigitValue(str[Len(str)])

\* The fields the code tells apart: "q", "*", fields that are no number ("a"
\* among them), a number below the listing, numbers of the listing, and, for a
\* listing of one entry, a number above it
SelTokens == {tokQ, tokStar, tokA, tokX, <<"0">>, <<"1">>, <<"2">>}

\* get_substr(line, ' '): the fields of the line typed; NULL when there is none
SelLines == UNION {[1..n -> SelTokens] : n \in 0..MaxTokens}

\* The entry a number would select if the store were read again for each number
SelectedEntry_relisted(trash_files, F, num) ==
    IF num <= Len(scandir(F, trash_files_dir)) THEN scandir(F, trash_files_dir)[num]
    ELSE trash_files[num]

\* trash_files[num - 1]: the entry a number selects is the entry of the
\* listing that was shown, whatever the store F holds by now
SelectedEntry(trash_files, F, num) == trash_files[num]

\* Frame of untrash_function and of remove_from_trash at the screen:
\* trash_files is the listing shown, args the fields typed, tried the entries
\* the operation was called on since the listing was shown, passes the listings
\* shown, outer the status of the first invocation once it has called itself
NoSel ==
    [args |-> <<>>, i |-> 1, suffix |-> <<>>, tm |-> 0, exit_status |-> EXIT_SUCCESS,
     trash_files |-> <<>>, j |-> 1, free_and_return |-> 0, tried |-> <<>>,
     passes |-> 0, outer |-> NULL, all |-> FALSE]

\* return exit_status: the first invocation's status is the command's, the
\* status of the invocation it called is dropped
SelReturns(st, e) ==
    /\ exit_code' = IF batch.outer # NULL THEN batch.outer[1] ELSE st
    /\ pc' = "prompt"
    /\ ev' = e

\* untrash with no argument
untrash_function_screen ==
    /\ CommandBegins("untrash_function", 0, {})
    /\ batch' = NoSel
    /\ pc' = "undel_list"
    /\ UNCHANGED <<fs, perm, cwd, clock, recur_perm_error_flag, exit_code>>

\* The trashed files are read and listed
UntrashList ==
    /\ pc = "undel_list"
    /\ IF ~xchdir_ok(fs, perm, cwd, trash_files_dir)
       THEN /\ Emit({Msg("xchdir", trash_files_dir)}, 0)
            /\ SelReturns(EXIT_FAILURE, "untrash_returned")
            /\ UNCHANGED <<cwd, batch>>
       ELSE IF ~xchdir_ok(fs, perm, trash_files_dir, ws_path)
       THEN /\ Emit({Msg("xchdir", ws_path)}, 0)
            /\ SelReturns(EXIT_FAILURE, "untrash_returned")
            /\ cwd' = trash_files_dir
            /\ UNCHANGED batch
       ELSE IF Len(scandir(fs, trash_files_dir)) <= 0
       THEN /\ Emit({Msg("No trashed files", trash_files_dir)}, 0)
            /\ SelReturns(EXIT_SUCCESS, "untrash_returned")
            /\ cwd' = ws_path
            /\ UNCHANGED batch
       ELSE /\ Emit({}, 0)
            /\ cwd' = ws_path
            /\ batch' = [batch EXCEPT !.trash_files = scandir(fs, trash_files_dir),
                                      !.passes = @ + 1]
            /\ pc' = "undel_prompt"
            /\ ev' = "undel_listed"
            /\ UNCHANGED exit_code
    /\ UNCHANGED <<fs, perm, clock, recur_perm_error_flag, el, ret, fs0, made>>

\* The line typed at the prompt
UntrashReadLine ==
    /\ pc = "undel_prompt"
    /\ \E line \in SelLines :
        /\ hist.typed + Len(line) <= MaxTokens
        /\ hist' = [hist EXCEPT !.typed = @ + Len(line)]
        /\ IF line = NULL
           THEN SelReturns(EXIT_FAILURE, "untrash_returned") /\ UNCHANGED batch
           ELSE /\ batch' = [batch EXCEPT !.args = line, !.i = 1, !.tried = <<>>,
                                          !.all = FALSE]
                /\ pc' = "undel_scan"
                /\ ev' = "undel_line"
                /\ UNCHANGED exit_code
    /\ UNCHANGED <<fs, perm, cwd, clock, recur_perm_error_flag, el, out, ret, fs0, made>>

\* First pass over the fields: one field is looked at
UntrashScan ==
    /\ pc = "undel_scan"
    /\ batch.i <= Len(batch.args)
    /\ Emit(IF batch.args[batch.i] \notin {tokQ, tokStar} /\ ~is_number(batch.args[batch.i])
            THEN {Msg("Invalid ELN", batch.args[batch.i])} ELSE {}, 0)
    /\ IF batch.args[batch.i] = tokQ
       THEN /\ batch' = [batch EXCEPT !.free_and_return = 1, !.i = @ + 1]
            /\ ev' = "undel_quit"
            /\ UNCHANGED pc
       ELSE IF batch.args[batch.i] = tokStar
       THEN /\ batch' = [batch EXCEPT !.j = 1, !.all = TRUE]
            /\ ev' = "undel_star"
            /\ pc' = "undel_star"
       ELSE IF ~is_number(batch.args[batch.i])
       THEN /\ batch' = [batch EXCEPT !.exit_status = EXIT_FAILURE,
                                      !.free_and_return = 1, !.i = @ + 1]
            /\ ev' = "undel_invalid"
            /\ UNCHANGED pc
       ELSE /\ batch' = [batch EXCEPT !.i = @ + 1]
            /\ ev' = "undel_number"
            /\ UNCHANGED pc
    /\ UNCHANGED <<fs, perm, cwd, clock, recur_perm_error_flag, el, ret, fs0, made,
                   exit_code>>

\* The field "*": untrash_element on one entry of the listing
UntrashStar ==
    /\ pc = "undel_star"
    /\ \E o \in untrash_element(fs, perm, cwd, batch.trash_files[batch.j]) :
        /\ fs' = o.fs
        /\ Emit(o.msgs, o.n)
        /\ ret' = o.st
        /\ ev' = o.why
        /\ batch' = [batch EXCEPT
                        !.tried = Append(@, batch.trash_files[batch.j]),
                        !.exit_status = IF o.st # 0 THEN EXIT_FAILURE ELSE @,
                        !.j = IF batch.j = Len(batch.trash_files) THEN 1 ELSE @ + 1,
                        !.i = IF batch.j = Len(batch.trash_files) THEN @ + 1 ELSE @,
                        !.free_and_return =
                            IF batch.j = Len(batch.trash_files) THEN 1 ELSE @]
    /\ pc' = IF batch.j = Len(batch.trash_files) THEN "undel_scan" ELSE "undel_star"
    /\ fs0' = fs
    /\ el' = [NoEl EXCEPT !.file = batch.trash_files[batch.j]]
    /\ UNCHANGED <<perm, cwd, clock, recur_perm_error_flag, made, exit_code>>

\* UntrashScanEnds that goes on to the numbers whatever the first pass found
UntrashScanEnds_goes_on ==
    /\ pc = "undel_scan"
    /\ batch.i > Len(batch.args)
    /\ batch' = [batch EXCEPT !.i = 1]
    /\ pc' = "undel_nums"
    /\ ev' = "undel_scanned"
    /\ UNCHANGED <<fs, perm, cwd, clock, recur_perm_error_flag, el, out, ret, fs0, hist,
                   made, exit_code>>

\* The first pass is over: return, or go on to the numbers
UntrashScanEnds ==
    /\ pc = "undel_scan"
    /\ batch.i > Len(batch.args)
    /\ IF batch.free_and_return = 1
       THEN SelReturns(batch.exit_status, "untrash_returned") /\ UNCHANGED batch
       ELSE /\ batch' = [batch EXCEPT !.i = 1]
            /\ pc' = "undel_nums"
            /\ ev' = "undel_scanned"
            /\ UNCHANGED exit_code
    /\ UNCHANGED <<fs, perm, cwd, clock, recur_perm_error_flag, el, out, ret, fs0, hist,
                   made>>

\* Second pass: one number
UntrashNum ==
    /\ pc = "undel_nums"
    /\ batch.i <= Len(batch.args)
    /\ IF atoi(batch.args[batch.i]) <= 0
          \/ atoi(batch.args[batch.i]) > Len(batch.trash_files)
       THEN /\ Emit({Msg("Invalid ELN", batch.args[batch.i])}, 0)
            /\ batch' = [batch EXCEPT !.i = @ + 1]
            /\ ev' = "undel_invalid"
            /\ UNCHANGED <<fs, ret, el, fs0>>
       ELSE /\ \E o \in untrash_element(fs, perm, cwd,
                                        SelectedEntry(batch.trash_files, fs, atoi(batch.args[batch.i]))) :
                /\ fs' = o.fs
                /\ Emit(o.msgs, o.n)
                /\ ret' = o.st
                /\ ev' = o.why
                /\ batch' = [batch EXCEPT
                                !.i = @ + 1,
                                !.tried = Append(@, SelectedEntry(batch.trash_files, fs, atoi(batch.args[batch.i]))),
                                !.exit_status = IF o.st # 0 THEN EXIT_FAILURE ELSE @]
            /\ fs0' = fs
            /\ el' = [NoEl EXCEPT !.file = SelectedEntry(batch.trash_files, fs, atoi(batch.args[batch.i]))]
    /\ UNCHANGED <<perm, cwd, clock, recur_perm_error_flag, pc, made, exit_code>>

\* The numbers are done: if trashed files remain, untrash_function again
UntrashNumsEnd ==
    /\ pc = "undel_nums"
    /\ batch.i > Len(batch.args)
    /\ IF count_dir(fs, perm, cwd, trash_files_dir) > 2
       THEN /\ batch' = [batch EXCEPT
                            !.outer = IF @ = NULL THEN <<batch.exit_status>> ELSE @,
                            !.exit_status = EXIT_SUCCESS, !.args = <<>>, !.i = 1,
                            !.free_and_return = 0]
            /\ pc' = "undel_list"
            /\ ev' = "undel_reload"
            /\ UNCHANGED exit_code
       ELSE SelReturns(batch.exit_status, "untrash_returned") /\ UNCHANGED batch
    /\ UNCHANGED <<fs, perm, cwd, clock, recur_perm_error_flag, el, out, ret, fs0, hist,
                   made>>

\* untrash *, untrash a, untrash all
untrash_function_all(arg) ==
    /\ IF ~xchdir_ok(fs, perm, cwd, trash_files_dir)
       THEN /\ CommandBegins("untrash_function", 0, {Msg("xchdir", trash_files_dir)})
            /\ exit_code' = EXIT_FAILURE
            /\ UNCHANGED <<cwd, batch, pc>>
       ELSE IF Len(scandir(fs, trash_files_dir)) <= 0
       THEN IF xchdir_ok(fs, perm, trash_files_dir, ws_path)
            THEN /\ CommandBegins("untrash_function", 0,
                                  {Msg("No trashed files", trash_files_dir)})
                 /\ exit_code' = EXIT_SUCCESS
                 /\ cwd' = ws_path
                 /\ UNCHANGED <<batch, pc>>
            ELSE /\ CommandBegins("untrash_function", 0,
                                  {Msg("No trashed files", trash_files_dir),
                                   Msg("xchdir", ws_path)})
                 /\ exit_code' = EXIT_FAILURE
                 /\ cwd' = trash_files_dir
                 /\ UNCHANGED <<batch, pc>>
       ELSE /\ CommandBegins("untrash_function", 0, {})
            /\ cwd' = trash_files_dir
            /\ batch' = [NoSel EXCEPT !.args = <<arg>>, !.all = TRUE, !.passes = 1,
                                      !.trash_files = scandir(fs, trash_files_dir)]
            /\ pc' = "undel_all"
            /\ UNCHANGED exit_code
    /\ UNCHANGED <<fs, perm, clock, recur_perm_error_flag>>

\* One entry of untrash all
UntrashAllElement ==
    /\ pc = "undel_all"
    /\ batch.j <= Len(batch.trash_files)
    /\ \E o \in untrash_element(fs, perm, cwd, batch.trash_files[batch.j]) :
        /\ fs' = o.fs
        /\ Emit(o.msgs, o.n)
        /\ ret' = o.st
        /\ ev' = o.why
        /\ batch' = [batch EXCEPT !.j = @ + 1,
                                  !.tried = Append(@, batch.trash_files[batch.j]),
                                  !.exit_status = IF o.st # 0 THEN EXIT_FAILURE ELSE @]
    /\ fs0' = fs
    /\ el' = [NoEl EXCEPT !.file = batch.trash_files[batch.j]]
    /\ UNCHANGED <<perm, cwd, clock, recur_perm_error_flag, pc, made, exit_code>>

\* untrash all returns after its one pass
UntrashAllReturns ==
    /\ pc = "undel_all"
    /\ batch.j > Len(batch.trash_files)
    /\ IF xchdir_ok(fs, perm, cwd, ws_path)
       THEN /\ Emit({}, 0)
            /\ cwd' = ws_path
            /\ exit_code' = batch.exit_status
       ELSE /\ Emit({Msg("xchdir", ws_path)}, 0)
            /\ exit_code' = EXIT_FAILURE
            /\ UNCHANGED cwd
    /\ pc' = "prompt"
    /\ ev' = "untrash_returned"
    /\ UNCHANGED <<fs, perm, clock, recur_perm_error_flag, batch, el, ret, fs0, made>>

\* trash del with no file name
remove_from_trash_screen ==
    /\ CommandBegins("remove_from_trash", 0, {})
    /\ batch' = NoSel
    /\ pc' = "rm_list"
    /\ UNCHANGED <<fs, perm, cwd, clock, recur_perm_error_flag, exit_code>>

\* The trashed files are read and listed
RemoveList ==
    /\ pc = "rm_list"
    /\ IF ~xchdir_ok(fs, perm, cwd, trash_files_dir)
       THEN /\ Emit({Msg("xchdir", trash_files_dir)}, 0)
            /\ SelReturns(EXIT_FAILURE, "remove_returned")
            /\ UNCHANGED <<cwd, batch>>
       ELSE IF Len(scandir(fs, trash_files_dir)) = 0
       THEN /\ IF xchdir_ok(fs, perm, trash_files_dir, ws_path)
               THEN /\ Emit({Msg("No trashed files", trash_files_dir)}, 0)
                    /\ cwd' = ws_path
               ELSE /\ Emit({Msg("No trashed files", trash_files_dir),
                             Msg("xchdir", ws_path)}, 0)
                    /\ cwd' = trash_files_dir
            /\ SelReturns(EXIT_SUCCESS, "remove_returned")
            /\ UNCHANGED batch
       ELSE IF ~xchdir_ok(fs, perm, trash_files_dir, ws_path)
       THEN /\ Emit({Msg("xchdir", ws_path)}, 0)
            /\ SelReturns(EXIT_FAILURE, "remove_returned")
            /\ cwd' = trash_files_dir
            /\ UNCHANGED batch
       ELSE /\ Emit({}, 0)
            /\ cwd' = ws_path
            /\ batch' = [batch EXCEPT !.trash_files = scandir(fs, trash_files_dir),
                                      !.passes = @ + 1]
            /\ pc' = "rm_prompt"
            /\ ev' = "rm_listed"
            /\ UNCHANGED exit_code
    /\ UNCHANGED <<fs, perm, clock, recur_perm_error_flag, el, ret, fs0, made>>

\* The line typed at the prompt
RemoveReadLine ==
    /\ pc = "rm_prompt"
    /\ \E line \in SelLines :
        /\ hist.typed + Len(line) <= MaxTokens
        /\ hist' = [hist EXCEPT !.typed = @ + Len(line)]
        /\ IF line = NULL
           THEN SelReturns(EXIT_FAILURE, "remove_returned") /\ UNCHANGED batch
           ELSE /\ batch' = [batch EXCEPT !.args = line, !.i = 1, !.tried = <<>>,
                                          !.all = FALSE]
                /\ pc' = "rm_scan"
                /\ ev' = "rm_line"
                /\ UNCHANGED exit_code
    /\ UNCHANGED <<fs, perm, cwd, clock, recur_perm_error_flag, el, out, ret, fs0, made>>

\* First pass over the fields: the first "q", "*" or field that is no number
\* ends the command
RemoveScan ==
    /\ pc = "rm_scan"
    /\ batch.i <= Len(batch.args)
    /\ Emit(IF batch.args[batch.i] \notin {tokQ, tokStar} /\ ~is_number(batch.args[batch.i])
            THEN {Msg("Invalid ELN", batch.args[batch.i])} ELSE {}, 0)
    /\ IF batch.args[batch.i] = tokQ
       THEN SelReturns(batch.exit_status, "remove_returned") /\ UNCHANGED batch
       ELSE IF batch.args[batch.i] = tokStar
       THEN /\ batch' = [batch EXCEPT !.j = 1, !.all = TRUE]
            /\ ev' = "rm_star"
            /\ pc' = "rm_star"
            /\ UNCHANGED exit_code
       ELSE IF ~is_number(batch.args[batch.i])
       THEN SelReturns(EXIT_FAILURE, "remove_returned")
            /\ batch' = [batch EXCEPT !.exit_status = EXIT_FAILURE]
       ELSE /\ batch' = [batch EXCEPT !.i = @ + 1]
            /\ ev' = "rm_number"
            /\ UNCHANGED <<pc, exit_code>>
    /\ UNCHANGED <<fs, perm, cwd, clock, recur_perm_error_flag, el, ret, fs0, made>>

\* The field "*": remove_file_from_trash on one entry of the listing; after
\* the last one the command returns
RemoveStar ==
    /\ pc = "rm_star"
    /\ \E o \in remove_file_from_trash(fs, batch.trash_files[batch.j]) :
        /\ fs' = o.fs
        /\ Emit(IF o.st # 0 THEN {Msg("Error trashing", batch.trash_files[batch.j])}
                ELSE {}, o.n)
        /\ ret' = o.st
        /\ batch' = [batch EXCEPT
                        !.tried = Append(@, batch.trash_files[batch.j]),
                        !.exit_status = IF o.st # 0 THEN EXIT_FAILURE ELSE @,
                        !.j = @ + 1]
        /\ IF batch.j = Len(batch.trash_files)
           THEN SelReturns(IF o.st # 0 THEN EXIT_FAILURE ELSE batch.exit_status,
                           "remove_returned")
           ELSE /\ ev' = IF o.st # 0 THEN "rf_failed" ELSE "rf_removed"
                /\ UNCHANGED <<pc, exit_code>>
    /\ fs0' = fs
    /\ el' = [NoEl EXCEPT !.file = batch.trash_files[batch.j]]
    /\ UNCHANGED <<perm, cwd, clock, recur_perm_error_flag, made>>

\* Every field is a number: go on to the second pass
RemoveScanEnds ==
    /\ pc = "rm_scan"
    /\ batch.i > Len(batch.args)
    /\ batch' = [batch EXCEPT !.i = 1]
    /\ pc' = "rm_nums"
    /\ ev' = "rm_scanned"
    /\ UNCHANGED <<fs, perm, cwd, clock, recur_perm_error_flag, el, out, ret, fs0, hist,
                   made, exit_code>>

\* Second pass: one number
RemoveNum ==
    /\ pc = "rm_nums"
    /\ batch.i <= Len(batch.args)
    /\ IF atoi(batch.args[batch.i]) <= 0
          \/ atoi(batch.args[batch.i]) > Len(batch.trash_files)
       THEN /\ Emit({Msg("Invalid ELN", batch.args[batch.i])}, 0)
            /\ batch' = [batch EXCEPT !.i = @ + 1, !.exit_status = EXIT_FAILURE]
            /\ ev' = "rm_invalid"
            /\ UNCHANGED <<fs, ret, el, fs0>>
       ELSE /\ \E o \in remove_file_from_trash(
                            fs, SelectedEntry(batch.trash_files, fs, atoi(batch.args[batch.i]))) :
                /\ fs' = o.fs
                /\ Emit(IF o.st # 0
                        THEN {Msg("Error trashing",
                                  SelectedEntry(batch.trash_files, fs, atoi(batch.args[batch.i])))}
                        ELSE {}, o.n)
                /\ ret' = o.st
                /\ ev' = IF o.st # 0 THEN "rf_failed" ELSE "rf_removed"
                /\ batch' = [batch EXCEPT
                                !.i = @ + 1,
                                !.tried = Append(@, SelectedEntry(batch.trash_files, fs, atoi(batch.args[batch.i]))),
                                !.exit_status = IF o.st # 0 THEN EXIT_FAILURE ELSE @]
            /\ fs0' = fs
            /\ el' = [NoEl EXCEPT !.file = SelectedEntry(batch.trash_files, fs, atoi(batch.args[batch.i]))]
    /\ UNCHANGED <<perm, cwd, clock, recur_perm_error_flag, pc, made, exit_code>>

\* The numbers are done: the command returns
RemoveNumsEnd ==
    /\ pc = "rm_nums"
    /\ batch.i > Len(batch.args)
    /\ SelReturns(batch.exit_status, "remove_returned")
    /\ UNCHANGED <<fs, perm, cwd, clock, recur_perm_error_flag, batch, el, out, ret, fs0,
                   hist, made>>

pADotF == pA \o <<"/", ".", "f">>
nameDotF0 == <<".", "f", ".", "0">>

\* Trash stores the selection may find: two entries of which one has lost its
\* original directory, an entry whose name begins with a dot beside an ordinary
\* one
SelectDisks ==
    { Prune(Trashed(Disk1, pADX, nameX0, InfoText(url_encode(pADX), 0)), {pAD, pADS}),
      Trashed(Trashed(Disk0 @@ (pADotF :> Reg("H")), pADotF, nameDotF0,
                      InfoText(url_encode(pADotF), 0)),
              pADX, nameX0, InfoText(url_encode(pADX), 0)) }

InitSelect ==
    /\ fs \in SelectDisks
    /\ perm = NoPerm
    /\ cwd = ws_path
    /\ clock = 0
    /\ recur_perm_error_flag = 0
    /\ pc = "prompt"
    /\ batch = NoSel
    /\ el = NoEl
    /\ out = {}
    /\ ret = EXIT_SUCCESS
    /\ ev = "init"
    /\ fs0 = fs
    /\ hist = [cmds |-> 0, faults |-> 0, manual |-> FALSE, typed |-> 0]
    /\ made = NoMade
    /\ exit_code = EXIT_SUCCESS

NextSelect ==
    \/ untrash_function_screen
    \/ UntrashList
    \/ UntrashReadLine
    \/ UntrashScan
    \/ UntrashStar
    \/ UntrashScanEnds
    \/ UntrashNum
    \/ UntrashNumsEnd
    \/ \E arg \in {tokStar, tokA, tokAll} : untrash_function_all(arg)
    \/ UntrashAllElement
    \/ UntrashAllReturns
    \/ remove_from_trash_screen
    \/ RemoveList
    \/ RemoveReadLine
    \/ RemoveScan
    \/ RemoveStar
    \/ RemoveScanEnds
    \/ RemoveNum
    \/ RemoveNumsEnd
    \/ \E a, b \in StoredNames(fs) : remove_from_trash_args(<<a, b>>)
    \/ RemoveArg
    \/ RemoveReturns
    \/ trash_clear

SpecSelect == InitSelect /\ [][NextSelect]_vars

--------------------------------------------------------------------------
(* The selection line *)

Fields(line) == {line[k] : k \in 1..Len(line)}

\* A field that is the number of an entry of the listing shown
ValidOrdinal(b, tok) == is_number(tok) /\ atoi(tok) >= 1 /\ atoi(tok) <= Len(b.trash_files)

\* The command started at the screen has returned after a line was typed
SelectionReturned ==
    /\ pc = "prompt"
    /\ ev \in {"untrash_returned", "remove_returned"}
    /\ "passes" \in DOMAIN batch
    /\ batch.passes >= 1
    /\ batch.args # <<>>

\* The entries the operation was called on since the line was typed
Tried == Fields(batch.tried)

\* C21: in a selection line with no "q", "*", "a" or "all", every field that is the
\* number of a listed entry is executed, wherever the fields that are no
\* number or out of range stand in the line
C21_InvalidTokensSkipped ==
    (SelectionReturned /\ Fields(batch.args) \cap {tokQ, tokStar, tokA, tokAll} = {})
    => \A k \in 1..Len(batch.args) :
          ValidOrdinal(batch, batch.args[k])
          => batch.trash_files[atoi(batch.args[k])] \in Tried

\* The first field of the line that is "q"
FirstQ(line) == CHOOSE k \in 1..Len(line) : line[k] = tokQ /\ \A m \in 1..(k - 1) : line[m] # tokQ

\* What the fields before position q ask for: the numbered entries, every
\* entry for "*"
AskedBefore(b, q) ==
    UNION {IF b.args[k] = tokStar THEN Fields(b.trash_files)
           ELSE IF ValidOrdinal(b, b.args[k]) THEN {b.trash_files[atoi(b.args[k])]}
           ELSE {} : k \in 1..(q - 1)}

\* C22: in a line with a "q", whose fields before the "q" are numbers or "*",
\* the operation has been called on exactly the entries asked for before the
\* "q": on none asked for after it, on all asked for before it
C22_QuitStopsAtOnce ==
    (SelectionReturned /\ tokQ \in Fields(batch.args)
        /\ \A k \in 1..(FirstQ(batch.args) - 1) :
              batch.args[k] = tokStar \/ is_number(batch.args[k]))
    => Tried = AskedBefore(batch, FirstQ(batch.args))

\* C23: untrash with "*", "a" or "all", as its argument or as the line typed
\* at the prompt, has called untrash_element on every entry of the listing
\* when it returns
C23_AllTokensSelectAll ==
    (SelectionReturned /\ ev = "untrash_returned" /\ Len(batch.args) = 1
        /\ batch.args[1] \in {tokStar, tokA, tokAll})
    => Fields(batch.trash_files) \subseteq Tried

\* C24: untrash does not return from a restore of every entry, with no "q"
\* typed, while entries of its listing remain in the trash
C24_RestoreAllRepeats ==
    (SelectionReturned /\ ev = "untrash_returned" /\ batch.all
        /\ tokQ \notin Fields(batch.args))
    => \A n \in Fields(batch.trash_files) : trash_files_dir \o Slash \o n \notin DOMAIN fs

\* C25: the listing is shown again only after a restore of every entry; a
\* restore of numbered entries and a removal at the screen show it once
C25_OnePassUnlessRestoreAll ==
    /\ ev = "undel_reload" => batch.all
    /\ pc \in {"undel_scan", "undel_nums", "undel_star"} /\ ~batch.all => batch.passes = 1
    /\ pc \in {"rm_prompt", "rm_scan", "rm_nums", "rm_star"} => batch.passes = 1

--------------------------------------------------------------------------
(* Ordinals *)

\* The second pass of untrash or of trash del is at a number of the listing
AtOrdinal ==
    /\ pc \in {"undel_nums", "rm_nums"}
    /\ batch.i <= Len(batch.args)
    /\ ValidOrdinal(batch, batch.args[batch.i])

\* The listing is kept while the line is processed, and a number k of the
\* line acts on its k-th entry
OrdinalStep ==
    /\ (pc \in {"undel_scan", "undel_star", "undel_nums", "rm_scan", "rm_star", "rm_nums"})
        => (batch'.trash_files = batch.trash_files)
    /\ AtOrdinal
        => (/\ el'.file = batch.trash_files[atoi(batch.args[batch.i])]
            /\ batch'.tried = Append(batch.tried, el'.file))

\* C26: the listing held at the prompt is the listing of the store as it was
\* shown; it stays the same while the line is processed; each number k of the
\* line acts on its k-th entry, whatever earlier numbers did to the store
C26_OrdinalsBoundToSnapshot ==
    /\ [](pc \in {"undel_prompt", "rm_prompt"}
            => batch.trash_files = scandir(fs, trash_files_dir))
    /\ [][OrdinalStep]_vars

\* A number has been executed after an earlier number of the same line changed
\* the store
C26_Witness ==
    /\ pc \in {"undel_nums", "rm_nums"}
    /\ Len(batch.tried) = 2
    /\ scandir(fs0, trash_files_dir) # batch.trash_files
    /\ batch.tried[2] = batch.trash_files[atoi(batch.args[2])]

--------------------------------------------------------------------------
(* Removal of selected entries *)

\* remove_file_from_trash is called in this step
RemoveCalled ==
    \/ pc = "rm_star"
    \/ pc = "rm_nums" /\ AtOrdinal
    \/ pc = "del_loop" /\ batch.i <= Len(batch.args)

\* The two halves of the entry name, and what is below them
HalvesOf(F, name) ==
    Under(F, trash_files_dir \o Slash \o name)
    \cup Under(F, trash_info_dir \o Slash \o name \o TrashInfoExt)

\* One removal: on success both halves are gone; a failure makes the result
\* failure; a failure recorded earlier stays; nothing else changes; the
\* next selected entry comes
RemoveStep ==
    RemoveCalled
    => /\ (ret' = EXIT_SUCCESS) => (HalvesOf(fs', el'.file) = {})
       /\ (ret' # EXIT_SUCCESS \/ batch.exit_status = EXIT_FAILURE)
           => (batch'.exit_status = EXIT_FAILURE)
       /\ DOMAIN fs' \subseteq DOMAIN fs
       /\ \A q \in DOMAIN fs \ HalvesOf(fs, el'.file) : q \in DOMAIN fs' /\ fs'[q] = fs[q]
       /\ (pc \in {"rm_nums", "del_loop"}) => (pc' = pc /\ batch'.i = batch.i + 1)
       /\ (pc = "rm_star" /\ batch.j < Len(batch.trash_files))
           => (pc' = "rm_star" /\ batch'.j = batch.j + 1)
       /\ (pc' = "prompt") => (exit_code' = batch'.exit_status)

\* C27: each removal, of an argument or of a selection at the screen, deletes the content entry and the info
\* record of the selected entry; a failed removal makes the result of the
\* command failure and the next selected entry is still processed; what was
\* not selected is unchanged; the command returns the accumulated result
C27_RemoveBothHalves ==
    [][/\ RemoveStep
       /\ (pc \in {"rm_nums", "del_loop"} /\ pc' = "prompt")
           => (exit_code' = batch.exit_status)]_vars

\* After a removal that failed, the next selected entry has been removed
C27_Witness ==
    /\ pc = "rm_nums"
    /\ Len(batch.tried) = 2
    /\ batch.exit_status = EXIT_FAILURE
    /\ ret = EXIT_SUCCESS
    /\ HalvesOf(fs, batch.tried[2]) = {}
    /\ HalvesOf(fs0, batch.tried[2]) # {}

--------------------------------------------------------------------------
(* Removal of every entry *)

\* trash clear, or trash del with "*" typed at the screen, has returned
ClearedAll ==
    /\ pc = "prompt"
    /\ \/ ev = "trash_clear"
       \/ ev = "remove_returned" /\ "all" \in DOMAIN batch /\ batch.all

\* C28: when trash clear or the removal of "*" returns success, neither the
\* files directory nor the info directory of the trash holds an entry,
\* whatever the names of the entries were
C28_ClearLeavesNothing ==
    (ClearedAll /\ exit_code = EXIT_SUCCESS)
    => (Entries(fs, trash_files_dir) = {} /\ Entries(fs, trash_info_dir) = {})

--------------------------------------------------------------------------
(* The arguments of one trash command *)

\* A trash command on an empty trash
InitBatch ==
    /\ fs = Disk0
    /\ perm \in Perms
    /\ cwd = ws_path
    /\ clock = 0
    /\ recur_perm_error_flag = 0
    /\ pc = "prompt"
    /\ batch = NoBatch
    /\ el = NoEl
    /\ out = {}
    /\ ret = EXIT_SUCCESS
    /\ ev = "init"
    /\ fs0 = fs
    /\ hist = [cmds |-> 0, faults |-> 0, manual |-> FALSE, typed |-> 0]
    /\ made = NoMade
    /\ exit_code = EXIT_SUCCESS

NextBatch ==
    \/ \E args \in TrashBatches : trash_files_args(args)
    \/ TrashArgInvalid
    \/ TrashElementRefuses
    \/ TrashElementChecks
    \/ TrashCopy
    \/ TrashInfo
    \/ TrashUndoCopy
    \/ TrashRemove
    \/ TrashUndoAll
    \/ TrashBatchReturns

SpecBatch == InitBatch /\ [][NextBatch]_vars

ElementPcs == {"cp", "info", "undo_copy", "rm", "undo_all"}

\* A step in which trash_element undoes what it did, or returns failure
ArgumentFails ==
    \/ pc \in {"undo_copy", "undo_all"}
    \/ pc \in ElementPcs /\ pc' = "trash_loop" /\ ret' # EXIT_SUCCESS

\* One step of the first trash command: it returns only after its last
\* argument, the arguments are taken one after the other, and when a later
\* argument fails the entry made for an earlier one is left as it was when
\* the later argument was begun
BatchStep ==
    /\ (pc = "trash_loop" /\ pc' = "prompt") => (batch.i > Len(batch.args))
    /\ (pc \in ElementPcs \cup {"trash_loop"}) => (batch'.i \in {batch.i, batch.i + 1})
    /\ (ArgumentFails /\ hist.cmds = 1 /\ batch.i > 1 /\ made # NoMade)
        => \A q \in HalvesOf(fs0, made.name) : q \in DOMAIN fs' /\ fs'[q] = fs0[q]

\* C29: every argument of a trash command is attempted, in order, and the
\* failure of one argument leaves the entries made for the earlier arguments
\* in the trash unchanged
C29_ArgumentsIsolated == [][BatchStep]_vars

--------------------------------------------------------------------------
(* Files of the root directory *)

pR == <<"/", "r">>
nameR0 == <<"r", ".", "0">>

\* A disk with a file in the root directory
DiskRoot == Disk0 @@ (pR :> Reg("R"))

\* The root directory writable or not
PermsRoot == {NoPerm, [NoPerm EXCEPT !.now = {Root}], [NoPerm EXCEPT !.now = {pA}]}

InitRoot ==
    /\ fs \in {DiskRoot, Trashed(DiskRoot, pR, nameR0, InfoText(url_encode(pR), 0))}
    /\ perm \in PermsRoot
    /\ cwd = ws_path
    /\ clock = 0
    /\ recur_perm_error_flag = 0
    /\ pc = "prompt"
    /\ batch = NoBatch
    /\ el = NoEl
    /\ out = {}
    /\ ret = EXIT_SUCCESS
    /\ ev = "init"
    /\ fs0 = fs
    /\ hist = [cmds |-> 0, faults |-> 0, manual |-> FALSE, typed |-> 0]
    /\ made = NoMade
    /\ exit_code = EXIT_SUCCESS

NextRoot ==
    \/ \E args \in {<<pR>>, <<pAF>>, <<pAF, pR>>} : trash_files_args(args)
    \/ TrashArgInvalid
    \/ TrashElementRefuses
    \/ TrashElementChecks
    \/ TrashCopy
    \/ TrashInfo
    \/ TrashUndoCopy
    \/ TrashRemove
    \/ TrashUndoAll
    \/ TrashBatchReturns
    \/ \E n \in StoredNames(fs) : untrash_function_args(<<n>>)
    \/ UntrashArg
    \/ UntrashReturns

SpecRoot == InitRoot /\ [][NextRoot]_vars

\* trash_element is about to be called on the file /r
TrashOfRootFile ==
    /\ pc = "trash_loop"
    /\ batch.i <= Len(batch.args)
    /\ batch.args[batch.i] = pR
    /\ lstat(fs, perm, cwd, pR)

\* untrash_element is about to be called on the entry of the file /r
RestoreOfRootFile ==
    /\ pc = "untrash_loop"
    /\ batch.i <= Len(batch.args)
    /\ batch.args[batch.i] = nameR0
    /\ trash_info_dir \o Slash \o nameR0 \o TrashInfoExt \in DOMAIN fs

\* The parent of /r is the root directory, and its write and search access
\* decides
RootStep ==
    /\ TrashOfRootFile
        => /\ Msg("Error getting parent directory", pR) \notin out'
           /\ (pc' = "cp") <=> access_wx(fs, perm, Root, Root)
           /\ (pc' # "cp") => (Msg("Permission denied", Root) \in out')
    /\ RestoreOfRootFile
        => /\ ev' # "ue_no_parent"
           /\ (ev' = "ue_parent_denied") <=> ~access_wx(fs, perm, cwd, Root)
           /\ (ev' = "ue_parent_denied") => (Msg("Permission denied", Root) \in out')

\* C30: for the file /r both the check before trashing and the check of the
\* destination before restoring take "/" as the parent directory and decide
\* by write and search access to it; neither fails to find a parent
C30_RootIsParent == [][RootStep]_vars

\* The file /r has gone through the checks of trash_element
C30_Witness ==
    /\ pc = "cp"
    /\ el.file = pR
    /\ access_wx(fs, perm, Root, Root)

--------------------------------------------------------------------------
(* Two processes on one trash *)

\* Two instances of the program, each running trash on one file.  batch holds
\* the frame of each: its position, its argument, the time it read, the
\* suffix it made, its trash_element frame and the status it returned.  No
\* failure of the environment is considered here.
RaceFrame(arg) ==
    [pc |-> "start", arg |-> arg, tm |-> 0, suffix |-> <<>>, el |-> NoEl,
     ret |-> EXIT_SUCCESS]

InitRace ==
    /\ fs = Disk0
    /\ perm = NoPerm
    /\ cwd = ws_path
    /\ clock = 0
    /\ recur_perm_error_flag = 0
    /\ pc = "race"
    /\ batch \in {<<RaceFrame(pAF), RaceFrame(a)>> : a \in {pBF, pADX}}
    /\ el = NoEl
    /\ out = {}
    /\ ret = EXIT_SUCCESS
    /\ ev = "init"
    /\ fs0 = fs
    /\ hist = [cmds |-> 0, faults |-> 0, manual |-> FALSE, typed |-> 0]
    /\ made = NoMade
    /\ exit_code = EXIT_SUCCESS

\* A step of process k leaves everything but the disk and its own frame
RaceFrameOnly ==
    UNCHANGED <<perm, cwd, clock, recur_perm_error_flag, pc, el, out, ret, fs0, hist, made,
                exit_code>>

\* trash_files_args: time(NULL), localtime, gen_date_suffix
RaceStart(k) ==
    /\ pc = "race"
    /\ batch[k].pc = "start"
    /\ batch' = [batch EXCEPT ![k].tm = clock, ![k].suffix = gen_date_suffix(clock),
                              ![k].pc = "check"]
    /\ ev' = "race_start"
    /\ UNCHANGED fs
    /\ RaceFrameOnly

\* check_trash_file and trash_element up to the copy
RaceChecks(k) ==
    /\ pc = "race"
    /\ batch[k].pc = "check"
    /\ IF /\ check_trash_file(fs, perm, cwd, batch[k].arg).st = EXIT_SUCCESS
          /\ trash_element_begin(fs, perm, cwd, 0, batch[k].suffix, batch[k].arg).st
                = EXIT_SUCCESS
       THEN batch' = [batch EXCEPT
                        ![k].el = trash_element_begin(fs, perm, cwd, 0, batch[k].suffix,
                                                      batch[k].arg).el,
                        ![k].pc = "cp"]
       ELSE batch' = [batch EXCEPT ![k].ret = EXIT_FAILURE, ![k].pc = "done"]
    /\ ev' = "race_checked"
    /\ UNCHANGED fs
    /\ RaceFrameOnly

\* cp -a file dest
RaceCopy(k) ==
    /\ pc = "race"
    /\ batch[k].pc = "cp"
    /\ \E o \in CpOutcomes(fs, Resolve(cwd, batch[k].el.file), trash_file_of(batch[k].el)) :
        /\ o.n = 0
        /\ fs' = o.fs
        /\ batch' = IF o.st # EXIT_SUCCESS
                    THEN [batch EXCEPT ![k].ret = EXIT_FAILURE, ![k].pc = "done"]
                    ELSE [batch EXCEPT ![k].pc = "info"]
    /\ ev' = "race_copied"
    /\ RaceFrameOnly

\* fopen(info_file, "w"), url_encode and the fprintf of the info file
RaceInfo(k) ==
    /\ pc = "race"
    /\ batch[k].pc = "info"
    /\ IsDir(fs, trash_info_dir)
    /\ fs' = Graft(Prune(fs, {info_file_of(batch[k].el)}), info_file_of(batch[k].el),
                   (<<>> :> [t |-> "reg",
                             d |-> InfoText(url_encode(OrigPath(batch[k].el)),
                                            batch[k].tm)]))
    /\ batch' = [batch EXCEPT ![k].pc = "rm"]
    /\ ev' = "race_info_written"
    /\ RaceFrameOnly

\* rm -r file, and the return of trash_element
RaceRemove(k) ==
    /\ pc = "race"
    /\ batch[k].pc = "rm"
    /\ \E o \in RmOutcomes(fs, <<Resolve(cwd, batch[k].el.file)>>) :
        /\ o.n = 0
        /\ o.st = EXIT_SUCCESS
        /\ fs' = o.fs
    /\ batch' = [batch EXCEPT ![k].ret = EXIT_SUCCESS, ![k].pc = "done"]
    /\ ev' = "race_trashed"
    /\ RaceFrameOnly

\* A second goes by
RaceTick ==
    /\ pc = "race"
    /\ clock < MaxClock
    /\ clock' = clock + 1
    /\ ev' = "tick"
    /\ UNCHANGED <<fs, perm, cwd, recur_perm_error_flag, pc, batch, el, out, ret, fs0,
                   hist, made, exit_code>>

NextRace ==
    \/ \E k \in {1, 2} : RaceStart(k)
    \/ \E k \in {1, 2} : RaceChecks(k)
    \/ \E k \in {1, 2} : RaceCopy(k)
    \/ \E k \in {1, 2} : RaceInfo(k)
    \/ \E k \in {1, 2} : RaceRemove(k)
    \/ RaceTick

SpecRace == InitRace /\ [][NextRace]_vars

\* Both processes have returned success
BothTrashed ==
    /\ pc = "race"
    /\ \A k \in {1, 2} : batch[k].pc = "done" /\ batch[k].ret = EXIT_SUCCESS

\* The two files, /a/f and / b/f, have one base name, and the two processes
\* read one time
SameNameSameTime ==
    /\ batch[1].arg = pAF
    /\ batch[2].arg = pBF
    /\ batch[1].tm = batch[2].tm

\* C31: two processes that trash files of one base name within one second
\* make the same name, and when both have returned success both originals
\* are gone while the trash holds one content entry and one info record
C31_RaceLosesOneFile ==
    (BothTrashed /\ SameNameSameTime)
    => /\ batch[1].el.file_suffix = batch[2].el.file_suffix
       /\ batch[1].arg \notin DOMAIN fs /\ batch[2].arg \notin DOMAIN fs
       /\ Cardinality(Entries(fs, trash_files_dir)) = 1
       /\ Cardinality(Entries(fs, trash_info_dir)) = 1

\* Both have returned success and the one entry holds the content of one
\* file under the recorded path of the other
C31_Witness ==
    /\ BothTrashed
    /\ SameNameSameTime
    /\ fs[trash_file_of(batch[1].el)] = Disk0[batch[2].arg]
    /\ RecordedPath(fs[info_file_of(batch[1].el)].d) = batch[1].arg

--------------------------------------------------------------------------
(* The status of a trash command *)

\* What check_trash_file prints when it refuses an argument
RefusalMsgs == {"Cannot trash", "Use 'trash del'", "lstat", "Cannot trash a device"}

\* C32: a trash command in which check_trash_file refused an argument
\* returns failure, wherever the argument stood, and a command that returns
\* failure has reported what failed
C32_StatusReflectsEveryItem ==
    (pc = "prompt" /\ ev = "trash_returned")
    => /\ (\E m \in out : m[1] \in RefusalMsgs) => exit_code = EXIT_FAILURE
       /\ exit_code = EXIT_FAILURE => out # {}

--------------------------------------------------------------------------
(* The trash command on the trash itself *)

DotDot == <<".", ".">>

\* Arguments that name the trash directory, something inside it or one of its
\* ancestors: absolute, with a trailing slash, relative to the workspace,
\* with . and .. components; and one ordinary file
TrashForms ==
    { trash_dir, trash_dir \o Slash, pH, pH \o Slash, Root,
      trash_files_dir \o Slash \o nameF0,
      DotDot \o trash_dir,
      DotDot \o trash_files_dir \o Slash \o nameF0,
      pH \o <<"/", ".">> \o <<"/", "T">>,
      trash_dir \o Slash \o DotDot \o <<"/", "T">> \o <<"/", "i", "n", "f", "o">>,
      pBF }

InitForms ==
    /\ fs = Disk1
    /\ perm \in Perms
    /\ cwd = ws_path
    /\ clock = 0
    /\ recur_perm_error_flag = 0
    /\ pc = "prompt"
    /\ batch = NoBatch
    /\ el = NoEl
    /\ out = {}
    /\ ret = EXIT_SUCCESS
    /\ ev = "init"
    /\ fs0 = fs
    /\ hist = [cmds |-> 0, faults |-> 0, manual |-> FALSE, typed |-> 0]
    /\ made = NoMade
    /\ exit_code = EXIT_SUCCESS

NextForms ==
    \/ \E a \in TrashForms : trash_files_args(<<a>>)
    \/ TrashArgInvalid
    \/ TrashElementRefuses
    \/ TrashElementChecks
    \/ TrashCopy
    \/ TrashInfo
    \/ TrashUndoCopy
    \/ TrashRemove
    \/ TrashUndoAll
    \/ TrashBatchReturns

SpecForms == InitForms /\ [][NextForms]_vars

\* p is the trash directory, lies inside it or is one of its ancestors
TrashLocation(p) == Below(trash_dir, p) \/ p \in Ancestors(trash_dir)

\* The loop of trash_files_args is at an argument that names such a place
AtTrashLocation ==
    /\ pc = "trash_loop"
    /\ batch.i <= Len(batch.args)
    /\ TrashLocation(Resolve(cwd, batch.args[batch.i]))

FormStep == AtTrashLocation => (ev' = "invalid" /\ fs' = fs)

\* C33: an argument that names the trash directory, something inside it or
\* one of its ancestors is refused by check_trash_file, in whatever form it
\* is written, and nothing is copied or removed for it
C33_TrashLocationsRefused == [][FormStep]_vars

--------------------------------------------------------------------------
(* The flag of recur_perm_check from one check to the next *)

\* /a/d, whose subdirectories may be denied, and / b, which holds one file
FlagBatches == {<<argD, pB>>, <<argD, argD>>, <<pB>>}

InitFlag ==
    /\ fs = DiskDeep
    /\ perm \in PermsDeep
    /\ cwd = ws_path
    /\ clock = 0
    /\ recur_perm_error_flag = 0
    /\ pc = "prompt"
    /\ batch = NoBatch
    /\ el = NoEl
    /\ out = {}
    /\ ret = EXIT_SUCCESS
    /\ ev = "init"
    /\ fs0 = fs
    /\ hist = [cmds |-> 0, faults |-> 0, manual |-> FALSE, typed |-> 0]
    /\ made = NoMade
    /\ exit_code = EXIT_SUCCESS

NextFlag ==
    \/ \E args \in FlagBatches : trash_files_args(args)
    \/ TrashElementRefuses
    \/ TrashElementChecks
    \/ TrashBatchReturns

SpecFlag == InitFlag /\ [][NextFlag]_vars

\* What trash_element would answer for the argument at hand had the flag the
\* other value
OtherFlagStatus ==
    trash_element_begin(fs, perm, cwd, 1 - recur_perm_error_flag, batch.suffix,
                        batch.args[batch.i]).st

FlagStep ==
    (pc = "trash_loop" /\ batch.i <= Len(batch.args) /\ (pc' = "cp" \/ batch'.i # batch.i))
    => ((pc' = "cp") <=> (OtherFlagStatus = EXIT_SUCCESS))

\* C34: the answer of the permission check for an argument is the same
\* whatever recur_perm_error_flag held when the check began: a denial recorded
\* by an earlier check never makes the check of another directory fail
C34_FlagDoesNotLeak == [][FlagStep]_vars

\* / b passes its check although the check of /a/d before it left the flag set
C34_Witness ==
    /\ pc = "cp"
    /\ batch.args = <<argD, pB>>
    /\ batch.i = 2
    /\ Msg("Permission denied", pADS) \in out
    /\ recur_perm_error_flag = 0

--------------------------------------------------------------------------
(* untrash when the original path is taken again *)

nameD0 == <<"d", ".", "0">>

\* /a/f is in the trash and a new /a/f has been written since; /a/d is in the
\* trash and a new directory /a/d has been made since; and the trash of Disk1,
\* where the original path is free
LiveDisks ==
    { Graft(Disk1, pAF, (<<>> :> Reg("N"))),
      Graft(Graft(Trashed(Disk0, pAD, nameD0, InfoText(url_encode(pAD), 0)),
                  pAD, (<<>> :> Dir)),
            pAD \o <<"/", "n">>, (<<>> :> Reg("N"))),
      Disk1 }

InitLive ==
    /\ fs \in LiveDisks
    /\ perm \in Perms
    /\ cwd = ws_path
    /\ clock = 0
    /\ recur_perm_error_flag = 0
    /\ pc = "prompt"
    /\ batch = NoBatch
    /\ el = NoEl
    /\ out = {}
    /\ ret = EXIT_SUCCESS
    /\ ev = "init"
    /\ fs0 = fs
    /\ hist = [cmds |-> 0, faults |-> 0, manual |-> FALSE, typed |-> 0]
    /\ made = NoMade
    /\ exit_code = EXIT_SUCCESS

NextLive ==
    \/ \E n \in StoredNames(fs) : untrash_function_args(<<n>>)
    \/ UntrashArg
    \/ UntrashReturns

SpecLive == InitLive /\ [][NextLive]_vars

\* untrash_element is about to run for name, whose original path p is taken
OriginalTaken(name, p) ==
    /\ pc = "untrash_loop"
    /\ batch.i <= Len(batch.args)
    /\ batch.args[batch.i] = name
    /\ p \in DOMAIN fs

LiveStep ==
    \A e \in {<<nameF0, pAF>>, <<nameD0, pAD>>} :
        OriginalTaken(e[1], e[2])
        => /\ Tree(fs', e[2]) = Tree(fs, e[2])
           /\ Tree(fs', trash_dir) = Tree(fs, trash_dir)

\* C35: when something exists at the original path of an entry, untrash_element
\* leaves it as it is and keeps the entry in the trash
C35_RestoreSparesLiveData == [][LiveStep]_vars

--------------------------------------------------------------------------
(* The guards of trash_function and untrash_function *)

\* The settings the program was started with: xargs.stealth_mode, trash_ok and
\* config_ok.  They are carried next to the access environment in perm.
Settings == [stealth_mode : {0, 1}, trash_ok : {0, 1}, config_ok : {0, 1}]

\* The guard of trash_function with config_ok not looked at
trash_function_guard_config_unchecked(P) ==
    IF P.stealth_mode = 1 THEN "stealth"
    ELSE IF P.trash_ok = 0 THEN "disabled"
    ELSE "run"

\* What the first lines of trash_function decide
trash_function_guard(P) ==
    IF P.stealth_mode = 1 THEN "stealth"
    ELSE IF P.trash_ok = 0 \/ P.config_ok = 0 THEN "disabled"
    ELSE "run"

\* What the first lines of untrash_function decide
untrash_function_guard(P) ==
    IF P.stealth_mode = 1 THEN "stealth"
    ELSE IF P.trash_ok = 0 THEN "disabled"
    ELSE "run"

\* The command returns from its guard
GuardReturns(e, g) ==
    /\ g # "run"
    /\ CommandBegins(e, 0, {Msg(IF g = "stealth" THEN "STEALTH_DISABLED"
                                ELSE "Trash function disabled", <<>>)})
    /\ exit_code' = IF g = "stealth" THEN EXIT_SUCCESS ELSE EXIT_FAILURE
    /\ UNCHANGED <<fs, perm, cwd, clock, recur_perm_error_flag, pc, batch>>

trash_function_returns ==
    GuardReturns(IF perm.stealth_mode = 1 THEN "trash_stealth" ELSE "trash_disabled",
                 trash_function_guard(perm))

untrash_function_returns ==
    GuardReturns(IF perm.stealth_mode = 1 THEN "untrash_stealth" ELSE "untrash_disabled",
                 untrash_function_guard(perm))

\* trash_function past its guard, with file arguments
trash_function(args) ==
    /\ trash_function_guard(perm) = "run"
    /\ trash_files_args(args)

\* tr clear
trash_function_clear ==
    /\ trash_function_guard(perm) = "run"
    /\ trash_clear

\* tr ls
trash_function_list ==
    /\ trash_function_guard(perm) = "run"
    /\ list_trashed_files

\* untrash_function past its guard, with the names of trashed files
untrash_function(names) ==
    /\ untrash_function_guard(perm) = "run"
    /\ untrash_function_args(names)

InitGuard ==
    /\ fs = Disk1
    /\ perm \in {P @@ g : P \in {NoPerm, [NoPerm EXCEPT !.now = {pB}]}, g \in Settings}
    /\ cwd = ws_path
    /\ clock = 0
    /\ recur_perm_error_flag = 0
    /\ pc = "prompt"
    /\ batch = NoBatch
    /\ el = NoEl
    /\ out = {}
    /\ ret = EXIT_SUCCESS
    /\ ev = "init"
    /\ fs0 = fs
    /\ hist = [cmds |-> 0, faults |-> 0, manual |-> FALSE, typed |-> 0]
    /\ made = NoMade
    /\ exit_code = EXIT_SUCCESS

NextGuard ==
    \/ trash_function_returns
    \/ \E args \in {<<pBF>>, <<argD>>, <<trash_dir>>} : trash_function(args)
    \/ trash_function_clear
    \/ trash_function_list
    \/ untrash_function_returns
    \/ \E n \in StoredNames(fs) : untrash_function(<<n>>)
    \/ TrashArgInvalid
    \/ TrashElementRefuses
    \/ TrashElementChecks
    \/ TrashCopy
    \/ TrashInfo
    \/ TrashUndoCopy
    \/ TrashRemove
    \/ TrashUndoAll
    \/ TrashBatchReturns
    \/ UntrashArg
    \/ UntrashReturns

SpecGuard == InitGuard /\ [][NextGuard]_vars

\* The command is over at once with status st: the message of the guard is all
\* that was printed, no file and no directory changed
ReturnsIdle(st, m) ==
    /\ exit_code' = st
    /\ pc' = "prompt"
    /\ fs' = fs
    /\ cwd' = cwd
    /\ out' = {Msg(m, <<>>)}

GuardStep ==
    (pc = "prompt" /\ hist'.cmds = hist.cmds + 1)
    => /\ (perm.stealth_mode = 1) => ReturnsIdle(EXIT_SUCCESS, "STEALTH_DISABLED")
       /\ (perm.stealth_mode = 0 /\ perm.trash_ok = 0)
              => ReturnsIdle(EXIT_FAILURE, "Trash function disabled")
       /\ (perm.stealth_mode = 0 /\ perm.config_ok = 0 /\ ev' # "untrash_function")
              => ReturnsIdle(EXIT_FAILURE, "Trash function disabled")

\* C36: in stealth mode trash_function and untrash_function return success,
\* and with the trash disabled (trash_ok false, or config_ok false for
\* trash_function) they return failure, in both cases with no change to any
\* file, to the trash or to the working directory
C36_GuardsChangeNothing == [][GuardStep]_vars

\* A command has been refused because config_ok is false
C36_Witness ==
    /\ pc = "prompt"
    /\ hist.cmds = 1
    /\ perm.stealth_mode = 0 /\ perm.trash_ok = 1 /\ perm.config_ok = 0
    /\ ev = "trash_disabled"
    /\ exit_code = EXIT_FAILURE
    /\ fs = Disk1

--------------------------------------------------------------------------
(* The interactive untrash session runs to its end *)

\* The steps of untrash_function that only look at the line typed
SessionComputes ==
    \/ UntrashScan
    \/ UntrashScanEnds

\* The steps that read the trash directory or wait for cp and rm
SessionCalls ==
    \/ UntrashList
    \/ UntrashStar
    \/ UntrashNum
    \/ UntrashNumsEnd

\* One of the steps of SessionCalls can be taken
CallPending == pc \in {"undel_list", "undel_star", "undel_nums"}

NextSession ==
    \/ untrash_function_screen
    \/ UntrashReadLine
    \/ SessionComputes
    \/ SessionCalls

\* The program runs whenever it can, the directory is read and cp and rm come
\* back (weak fairness of SessionCalls, with its enabling condition written
\* out); the user types when the user wants
SpecSession ==
    /\ InitSelect
    /\ [][NextSession]_vars
    /\ WF_vars(SessionComputes)
    /\ ([]<>(~CallPending) \/ []<><<SessionCalls>>_vars)

SessionWorks == pc \in {"undel_list", "undel_scan", "undel_star", "undel_nums"}

QuitTyped == \E k \in 1..Len(batch.args) : batch.args[k] = tokQ

SessionStep ==
    /\ (pc = "undel_scan" /\ batch.i > Len(batch.args) /\ QuitTyped) => pc' = "prompt"
    /\ (pc = "undel_prompt" /\ hist'.typed = hist.typed) => pc' = "prompt"
    /\ (pc = "undel_list" /\ Len(scandir(fs, trash_files_dir)) = 0) => pc' = "prompt"
    /\ (pc = "undel_nums" /\ batch.i > Len(batch.args)
            /\ Entries(fs, trash_files_dir) = {}) => pc' = "prompt"
    /\ (pc = "undel_list") => pc' \in {"prompt", "undel_prompt"}
    /\ (pc' = "undel_list")
            => (pc = "prompt" \/ (pc = "undel_nums" /\ batch.args # <<>>))

\* C37: the interactive untrash session ends when q is among the fields
\* typed, when the line typed has no field and when no trashed file is found;
\* the list is shown again only after a line has been typed, so that between
\* two lines of the user the session always comes to its prompt or to its end
C37_SessionTerminates ==
    /\ [][SessionStep]_vars
    /\ SessionWorks ~> (pc \in {"prompt", "undel_prompt"})
    /\ (pc = "undel_scan" /\ QuitTyped) ~> (pc = "prompt")

\* After the one listed entry was restored a hidden entry is left: the session
\* looks again, finds nothing to list and ends
C37_Witness ==
    /\ pc = "prompt"
    /\ ev = "untrash_returned"
    /\ Msg("No trashed files", trash_files_dir) \in out
    /\ Entries(fs, trash_files_dir) # {}
    /\ batch.passes = 1
    /\ hist.typed > 0

--------------------------------------------------------------------------
(* The line buffer of untrash_element *)

\* The Path value untrash_element takes from the record of el, as read
ValueRead == ReadPath(fs[info_file_of(el)].d, 1, NULL)

\* The Path value trash_element wrote, with the newline that ends its line
ValueWritten == url_encode(OrigPath(el)) \o <<"\n">>

\* C38: the Path value untrash_element takes from a record written by
\* trash_element is the whole value, also when the encoded path is longer
\* than the line buffer of PATH_MAX + 6 bytes: never a cut-off part of it
C38_WholeValueRead == ev = "codec_read" => ValueRead = ValueWritten

====
